---- MODULE Spec2Model ----
(***************************************************************************)
(* Model of gw2_tp_alerts.py: the polling/alerting engine (monitor_mode),  *)
(* the SQLite store (class DB), the price API client (class GW2API), the   *)
(* webhook notifier (class DiscordNotify) and the administrative           *)
(* operations reachable from main_menu.                                    *)
(*                                                                         *)
(* Conventions                                                             *)
(*  - Time is the wall clock in whole seconds (time.time()); it advances   *)
(*    only in time.sleep().                                                *)
(*  - main_menu runs one operation at a time: the administrative           *)
(*    operations run only while monitor_mode is not running (pc = "menu"). *)
(*  - icon_url is carried by the code but never read by any decision; it   *)
(*    is left out of rows, listings and events.                            *)
(*  - The local `items` of monitor_mode keeps the columns the loop reads   *)
(*    (name, buy_threshold, sell_threshold).                               *)
(***************************************************************************)
EXTENDS Integers, Sequences, FiniteSets, TLC

\* ------------------------------------------------------------------------
\* Program constants
\* ------------------------------------------------------------------------
CHECK_INTERVAL == 300
RATE_LIMIT_RETRY == 1200
EMPTY_SLEEP == 10
DEFAULT_RETRY_AFTER == 5
LOWEST_SEEN_DEFAULT == 999999999

\* ------------------------------------------------------------------------
\* Bounds of the model
\* ------------------------------------------------------------------------
\* The clock stops at MaxTime.  Sleeps shorter than the poll interval (the
\* 10 s of an empty store, a webhook retry delay) are explored in the last
\* MaxIdleTime seconds before it, so that clocks off the CHECK_INTERVAL grid
\* do not multiply the state space.
MaxTime == 1210
MaxIdleTime == 10
MaxQty == 1
\* send_alert retries by calling itself (line 334); MaxRetries is the number
\* of retries that fit below the interpreter's recursion limit.
MaxRetries == 1

ItemIds == {1, 2}
\* Unit prices of the orders in a listing (0 stands for "no order").
OrderPrices == {1}

\* The display names /v2/items may return for an id: two ids can carry the
\* same name.
ItemNames(id) == IF id = 1 THEN {"Bolt"} ELSE {"Bolt", "Dusk"}
\* Python's None, and the ValueError parse_price_input raises: values outside
\* every range of the model.
None == -1
ValueError == -2

Min(a, b) == IF a < b THEN a ELSE b

\* ------------------------------------------------------------------------
\* Price text: format_price / parse_price_input.  A text is a sequence of
\* one-character strings.
\* ------------------------------------------------------------------------
Digits == <<"0", "1", "2", "3", "4", "5", "6", "7", "8", "9">>

IsDigit(ch) == \E i \in 1..10 : Digits[i] = ch

DigitVal(ch) == (CHOOSE i \in 1..10 : Digits[i] = ch) - 1

lower(ch) == CASE ch = "G" -> "g" [] ch = "S" -> "s" [] ch = "C" -> "c" [] OTHER -> ch

RECURSIVE strip(_)
strip(s) ==
    IF s = <<>> THEN s
    ELSE IF Head(s) = " " THEN strip(Tail(s))
    ELSE IF s[Len(s)] = " " THEN strip(SubSeq(s, 1, Len(s) - 1))
    ELSE s

\* Length of the longest run of digits at the start of s (\d+ is greedy).
RECURSIVE DigitRun(_)
DigitRun(s) == IF s # <<>> /\ IsDigit(Head(s)) THEN 1 + DigitRun(Tail(s)) ELSE 0

RECURSIVE int(_)
int(s) == IF s = <<>> THEN 0 ELSE 10 * int(SubSeq(s, 1, Len(s) - 1)) + DigitVal(s[Len(s)])

\* (\d+<unit>)? at the start of s: the text left after the optional group.
SkipGroup(s, unit) ==
    LET n == DigitRun(s)
    IN IF n > 0 /\ Len(s) > n /\ s[n + 1] = unit THEN SubSeq(s, n + 2, Len(s)) ELSE s

\* re.match(r'^(\d+g)?(\d+s)?(\d+c)?$', s)
PriceMatch(s) == SkipGroup(SkipGroup(SkipGroup(s, "g"), "s"), "c") = <<>>

\* re.search(r'(\d+)<unit>', s): the digits of the first match, or <<>>.
RECURSIVE SearchGroup(_, _)
SearchGroup(s, unit) ==
    IF s = <<>> THEN <<>>
    ELSE LET n == DigitRun(s)
         IN IF n > 0 /\ Len(s) > n /\ s[n + 1] = unit THEN SubSeq(s, 1, n)
            ELSE SearchGroup(Tail(s), unit)

parse_price_input(price_str) ==
    LET s == [i \in 1..Len(strip(price_str)) |-> lower(strip(price_str)[i])]
    IN IF ~PriceMatch(s) THEN ValueError
       ELSE int(SearchGroup(s, "g")) * 10000 + int(SearchGroup(s, "s")) * 100
            + int(SearchGroup(s, "c"))

RECURSIVE str(_)
str(n) == IF n < 10 THEN <<Digits[n + 1]>> ELSE str(n \div 10) \o <<Digits[(n % 10) + 1]>>

Pad2(n) == IF n < 10 THEN <<"0">> \o str(n) ELSE str(n)

\* Mutant of format_price: silver and copper are written without padding.
format_price_Unpadded(copper) ==
    str(copper \div 10000) \o <<"g">> \o str((copper % 10000) \div 100) \o <<"s">>
    \o str(copper % 100) \o <<"c">>

format_price(copper) ==
    str(copper \div 10000) \o <<"g">> \o Pad2((copper % 10000) \div 100) \o <<"s">>
    \o Pad2(copper % 100) \o <<"c">>

\* Threshold texts typed by the operator: 0 copper, 1 copper, malformed.
PriceInputs == {<<"0", "c">>, <<"1", "c">>, <<"1", "x">>}

\* ------------------------------------------------------------------------
\* class DB: the items table as a function id -> row
\* ------------------------------------------------------------------------
Row(name, bt, st) ==
    [name |-> name, buy_threshold |-> bt, sell_threshold |-> st,
     lowest_seen |-> LOWEST_SEEN_DEFAULT, last_buy_price |-> 0, last_sell_price |-> 0]

\* Mutant of update_prices: the sell price is not written.
update_prices_BuyOnly(tbl, itemId, buy_price, sell_price, lowest_seen) ==
    IF itemId \notin DOMAIN tbl THEN tbl
    ELSE [tbl EXCEPT ![itemId] =
            [@ EXCEPT !.last_buy_price = buy_price,
                      !.lowest_seen = IF lowest_seen # None THEN lowest_seen ELSE @]]

\* UPDATE items SET last_buy_price, last_sell_price [, lowest_seen] WHERE id
update_prices(tbl, itemId, buy_price, sell_price, lowest_seen) ==
    IF itemId \notin DOMAIN tbl THEN tbl
    ELSE [tbl EXCEPT ![itemId] =
            [@ EXCEPT !.last_buy_price = buy_price,
                      !.last_sell_price = sell_price,
                      !.lowest_seen = IF lowest_seen # None THEN lowest_seen ELSE @]]

update_prices_ret(tbl, itemId) == itemId \in DOMAIN tbl

\* Mutant of itemAddRaises: only the id is looked up.
itemAddRaises_IdOnly(tbl, id, name) == id \in DOMAIN tbl

\* SELECT COUNT(*) FROM items WHERE id = ? OR name = ?  (> 0 raises)
itemAddRaises(tbl, id, name) ==
    \E k \in DOMAIN tbl : k = id \/ tbl[k].name = name

\* Mutant of itemAdd: a duplicate replaces the row of that id instead of
\* leaving the table alone.
itemAdd_Overwrites(tbl, id, name, buy_threshold, sell_threshold) ==
    [k \in DOMAIN tbl \cup {id} |->
        IF k = id THEN Row(name, buy_threshold, sell_threshold) ELSE tbl[k]]

itemAdd(tbl, id, name, buy_threshold, sell_threshold) ==
    IF itemAddRaises(tbl, id, name) THEN tbl
    ELSE [k \in DOMAIN tbl \cup {id} |->
            IF k = id THEN Row(name, buy_threshold, sell_threshold) ELSE tbl[k]]

itemDel(tbl, id) == [k \in DOMAIN tbl \ {id} |-> tbl[k]]

\* Mutant of itemDel_ret: the call reports success whatever it deleted.
itemDel_ret_Always(tbl, id) == TRUE

itemDel_ret(tbl, id) == id \in DOMAIN tbl

\* Mutant of itemThreshold: lowest_seen is left as it is.
itemThreshold_KeepsLowest(tbl, id, buy_threshold, sell_threshold) ==
    IF id \notin DOMAIN tbl THEN tbl
    ELSE [tbl EXCEPT ![id] =
            [@ EXCEPT !.buy_threshold = IF buy_threshold # None THEN buy_threshold ELSE @,
                      !.sell_threshold = IF sell_threshold # None THEN sell_threshold ELSE @]]

itemThreshold(tbl, id, buy_threshold, sell_threshold) ==
    IF id \notin DOMAIN tbl THEN tbl
    ELSE IF buy_threshold # None /\ sell_threshold # None THEN
        [tbl EXCEPT ![id] = [@ EXCEPT !.buy_threshold = buy_threshold,
                                      !.sell_threshold = sell_threshold,
                                      !.lowest_seen = LOWEST_SEEN_DEFAULT]]
    ELSE IF buy_threshold # None THEN
        [tbl EXCEPT ![id] = [@ EXCEPT !.buy_threshold = buy_threshold,
                                      !.lowest_seen = LOWEST_SEEN_DEFAULT]]
    ELSE IF sell_threshold # None THEN
        [tbl EXCEPT ![id] = [@ EXCEPT !.sell_threshold = sell_threshold,
                                      !.lowest_seen = LOWEST_SEEN_DEFAULT]]
    ELSE tbl

\* cursor.rowcount == 1; with neither threshold given no statement is
\* executed and the fresh cursor's rowcount is -1.
itemThreshold_ret(tbl, id, buy_threshold, sell_threshold) ==
    id \in DOMAIN tbl /\ (buy_threshold # None \/ sell_threshold # None)

\* ------------------------------------------------------------------------
\* class GW2API: listings() over the decoded response of the price API
\* ------------------------------------------------------------------------
Order(p, q) == [unit_price |-> p, quantity |-> q]

\* One side of an order book as the API returns it: best order first.
Sides == {<<>>} \cup {<<Order(p, q)>> : p \in OrderPrices, q \in 1..MaxQty}

\* buy_order = i['buys'][0] if i['buys'] else {'unit_price': 0, 'quantity': 0}
FirstOrder(side) == IF side = <<>> THEN Order(0, 0) ELSE side[1]

\* listings[i['id']] = {'buy': {...}, 'sell': {...}} for every entry i
listings(raw) ==
    [k \in DOMAIN raw |-> [buy |-> FirstOrder(raw[k].buys), sell |-> FirstOrder(raw[k].sells)]]

\* The responses the API can give for a request of `ids`: an entry for
\* some of the ids (ids without listings are left out of the answer).
RawResponses(ids) ==
    UNION {[S -> [buys : Sides, sells : Sides]] : S \in SUBSET ids}

\* ------------------------------------------------------------------------
\* monitor_mode: the body of `for id, props in items.items()`
\* ------------------------------------------------------------------------
Event(props, order, threshold, trigger) ==
    [name |-> props.name, price |-> order.unit_price, quantity |-> order.quantity,
     threshold |-> threshold, trigger |-> trigger]

\* Mutant of BuyCrossed: a price equal to the threshold alerts too.
BuyCrossed_OrEqual(current_buy, buy_threshold) == current_buy >= buy_threshold

\* if current_buy > props['buy_threshold']
BuyCrossed(current_buy, buy_threshold) == current_buy > buy_threshold

\* if current_sell < props['sell_threshold']
SellCrossed(current_sell, sell_threshold) == current_sell < sell_threshold

\* Mutant of ItemAlerts: a crossed buy threshold appends its alert twice.
ItemAlerts_BuyTwice(props, listing) ==
    (IF BuyCrossed(listing.buy.unit_price, props.buy_threshold)
        THEN <<Event(props, listing.buy, props.buy_threshold, "buy"),
               Event(props, listing.buy, props.buy_threshold, "buy")>> ELSE <<>>)
    \o
    (IF SellCrossed(listing.sell.unit_price, props.sell_threshold)
        THEN <<Event(props, listing.sell, props.sell_threshold, "sell")>> ELSE <<>>)

\* The alerts one item appends, in the order the code appends them.
ItemAlerts(props, listing) ==
    (IF BuyCrossed(listing.buy.unit_price, props.buy_threshold)
        THEN <<Event(props, listing.buy, props.buy_threshold, "buy")>> ELSE <<>>)
    \o
    (IF SellCrossed(listing.sell.unit_price, props.sell_threshold)
        THEN <<Event(props, listing.sell, props.sell_threshold, "sell")>> ELSE <<>>)

\* Rows come back from SELECT * FROM items in rowid (= id) order.
RECURSIVE SortedIds(_)
SortedIds(S) ==
    IF S = {} THEN <<>>
    ELSE LET m == CHOOSE x \in S : \A y \in S : x <= y
         IN <<m>> \o SortedIds(S \ {m})

\* Mutant of Completed: an id without an entry is skipped and the loop goes
\* on with the next one.
RECURSIVE Completed_SkipsMissing(_, _)
Completed_SkipsMissing(order, prices) ==
    IF order = <<>> THEN <<>>
    ELSE (IF Head(order) \in DOMAIN prices THEN <<Head(order)>> ELSE <<>>)
         \o Completed_SkipsMissing(Tail(order), prices)

\* The iterations that complete: prices[id] raises KeyError at the first
\* id the answer has no entry for, which ends the loop there.
RECURSIVE Completed(_, _)
Completed(order, prices) ==
    IF order = <<>> \/ Head(order) \notin DOMAIN prices THEN <<>>
    ELSE <<Head(order)>> \o Completed(Tail(order), prices)

\* Mutant of LoopStore: prices are recorded only for items that alert.
RECURSIVE LoopStore_OnlyAlerted(_, _, _)
LoopStore_OnlyAlerted(tbl, done, fetched) ==
    IF done = <<>> THEN tbl
    ELSE LoopStore_OnlyAlerted(
            IF ItemAlerts(tbl[Head(done)], fetched[Head(done)]) = <<>> THEN tbl
            ELSE update_prices(tbl, Head(done), fetched[Head(done)].buy.unit_price,
                               fetched[Head(done)].sell.unit_price, None),
            Tail(done), fetched)

\* Mutant of LoopStore: the sell price is passed as lowest_seen.
RECURSIVE LoopStore_TracksLowest(_, _, _)
LoopStore_TracksLowest(tbl, done, fetched) ==
    IF done = <<>> THEN tbl
    ELSE LoopStore_TracksLowest(
            update_prices(tbl, Head(done), fetched[Head(done)].buy.unit_price,
                          fetched[Head(done)].sell.unit_price,
                          fetched[Head(done)].sell.unit_price),
            Tail(done), fetched)

\* db.update_prices(id, current_buy, current_sell) for every completed
\* iteration (lowest_seen is not passed)
RECURSIVE LoopStore(_, _, _)
LoopStore(tbl, done, prices) ==
    IF done = <<>> THEN tbl
    ELSE LoopStore(update_prices(tbl, Head(done), prices[Head(done)].buy.unit_price,
                                 prices[Head(done)].sell.unit_price, None),
                   Tail(done), prices)

\* log_unusual_price: one line per alert (item name, trigger type).
LogLines(alerts) == [i \in 1..Len(alerts) |-> [name |-> alerts[i].name, trigger |-> alerts[i].trigger]]

RECURSIVE LoopAlerts(_, _, _)
LoopAlerts(snapshot, done, prices) ==
    IF done = <<>> THEN <<>>
    ELSE ItemAlerts(snapshot[Head(done)], prices[Head(done)])
         \o LoopAlerts(snapshot, Tail(done), prices)

\* ------------------------------------------------------------------------
\* class DiscordNotify: the embeds of one outbound message
\* ------------------------------------------------------------------------
RECURSIVE SelectTrigger(_, _)
SelectTrigger(alerts, trigger) ==
    IF alerts = <<>> THEN <<>>
    ELSE (IF Head(alerts).trigger = trigger THEN <<Head(alerts)>> ELSE <<>>)
         \o SelectTrigger(Tail(alerts), trigger)

Embed(title, alerts) ==
    [title |-> title,
     description |-> [i \in 1..Len(alerts) |->
        [name |-> alerts[i].name, price |-> alerts[i].price, quantity |-> alerts[i].quantity]]]

\* Mutant of Embeds: one embed per alert instead of one per trigger type.
Embeds_PerAlert(alerts) ==
    [i \in 1..Len(alerts) |->
        Embed(IF alerts[i].trigger = "buy" THEN "SELL Opportunity" ELSE "BUY Opportunity",
              <<alerts[i]>>)]

Embeds(alert_items) ==
    LET buy_alerts == SelectTrigger(alert_items, "buy")
        sell_alerts == SelectTrigger(alert_items, "sell")
    IN (IF buy_alerts # <<>> THEN <<Embed("SELL Opportunity", buy_alerts)>> ELSE <<>>)
       \o (IF sell_alerts # <<>> THEN <<Embed("BUY Opportunity", sell_alerts)>> ELSE <<>>)

\* ------------------------------------------------------------------------
\* DB.__migrate: tables, columns and PRAGMA user_version
\* ------------------------------------------------------------------------
\* The newest schema version.
SCHEMA_VERSION == 4

\* The store file is new: it holds no table.
NoTables == {}

\* The columns the upgrade steps deal with, as both CREATE TABLE statements
\* name them.
AllColumns ==
    {"buy_threshold", "sell_threshold", "last_buy_price", "last_sell_price",
     "icon_url", "custom_dir"}

\* CREATE TABLE IF NOT EXISTS items (...) / state (...): tables that exist
\* are left as they are.
create_tables(cols) == IF cols = NoTables THEN AllColumns ELSE cols

\* The ALTER TABLE statements of upgrade step k on the set of columns; each
\* runs only if PRAGMA table_info does not list its column.
step_columns(k, cols) ==
    CASE k = 1 -> IF "icon_url" \notin cols THEN cols \cup {"icon_url"} ELSE cols
      [] k = 2 -> (IF "last_buy_price" \notin cols THEN cols \cup {"last_buy_price"} ELSE cols)
                    \cup (IF "last_sell_price" \notin cols THEN {"last_sell_price"} ELSE {})
      [] k = 3 -> IF "custom_dir" \notin cols THEN cols \cup {"custom_dir"} ELSE cols
      [] k = 4 -> IF "sell_threshold" \notin cols
                    THEN (cols \ {"threshold"}) \cup {"buy_threshold", "sell_threshold"}
                    ELSE cols

\* What upgrade step k does to the rows of table items: a column added with
\* DEFAULT 0 holds 0 in every row; step 4 copies the renamed threshold
\* (UPDATE items SET sell_threshold = buy_threshold).
step_rows(k, cols, tbl) ==
    CASE k = 2 ->
           [id \in DOMAIN tbl |->
              [tbl[id] EXCEPT
                 !.last_buy_price = IF "last_buy_price" \notin cols THEN 0 ELSE @,
                 !.last_sell_price = IF "last_sell_price" \notin cols THEN 0 ELSE @]]
      [] k = 4 ->
           IF "sell_threshold" \notin cols
             THEN [id \in DOMAIN tbl |-> [tbl[id] EXCEPT !.sell_threshold = tbl[id].buy_threshold]]
             ELSE tbl
      [] OTHER -> tbl

\* Mutant of migrate_step: the step runs whatever version was read.
migrate_step_Always(k, userVersion, s) ==
    [version |-> k,
     columns |-> step_columns(k, s.columns),
     items   |-> step_rows(k, s.columns, s.items),
     applied |-> Append(s.applied, k)]

\* if userVersion < k: <step k>; PRAGMA user_version=k
migrate_step(k, userVersion, s) ==
    IF userVersion < k
      THEN [version |-> k,
            columns |-> step_columns(k, s.columns),
            items   |-> step_rows(k, s.columns, s.items),
            applied |-> Append(s.applied, k)]
      ELSE s

\* __migrate on a store with marker userVersion, columns cols and item rows
\* tbl: the tables are created if missing, then the four blocks
\* `if userVersion < k` run in the order of the text.
migrate_schema(userVersion, cols, tbl) ==
    migrate_step(4, userVersion,
      migrate_step(3, userVersion,
        migrate_step(2, userVersion,
          migrate_step(1, userVersion,
            [version |-> userVersion, columns |-> create_tables(cols),
             items |-> tbl, applied |-> <<>>]))))


\* ------------------------------------------------------------------------
\* State
\* ------------------------------------------------------------------------
VARIABLES
    now,          \* time.time()
    limit_until,  \* state.limit_until
    last_run,     \* state.last_run
    db_items,     \* table items: id -> row
    pc,           \* where main_menu / monitor_mode / send_alert stands
    discord,      \* monitor_mode: a DiscordNotify was built (webhook configured)
    items,        \* monitor_mode: snapshot db.items() of this cycle
    prices,       \* monitor_mode: api.listings(...) of this cycle
    alert_items,  \* monitor_mode: the events of this cycle
    logged,       \* alert lines appended to the log file in this cycle
    sends,        \* calls of discord.send_alert by monitor_mode in this cycle
    attempts,     \* webhook requests made for this cycle's alerts
    accepted,     \* webhook requests of this cycle the channel accepted
    payload,      \* the embeds of the last webhook request
    retry_after,  \* send_alert: delay read from the 429 answer
    rate_limits,  \* 429 answers the webhook gave for this cycle's alerts
    returned,     \* what send_alert returned to monitor_mode ("None": not yet)
    state_rows,   \* number of rows of table state
    call,         \* the last method called directly (CallSpec)
    custom_dir,   \* state.custom_dir (None: NULL)
    config,       \* keys present in the JSON file CONFIG_FILE
    user_version, \* PRAGMA user_version of the store file
    columns,      \* columns of tables items and state the upgrades deal with
    applied       \* upgrade steps the last __migrate ran, in order

storeVars == <<limit_until, last_run, db_items>>
cycleVars == <<items, prices, alert_items, logged>>
notifyVars == <<sends, attempts, accepted, payload, retry_after, rate_limits, returned>>
configVars == <<custom_dir, config>>
schemaVars == <<user_version, columns, applied>>
vars == <<now, limit_until, last_run, db_items, pc, discord, items, prices,
          alert_items, logged, sends, attempts, accepted, payload, retry_after,
          rate_limits, returned, state_rows, call, custom_dir, config,
          user_version, columns, applied>>

Empty == <<>>

\* No method has been called directly.
NoCall ==
    [op |-> "", id |-> None, name |-> "", buy |-> None, sell |-> None,
     lowest_seen |-> None, ret |-> ""]

\* The store file does not exist before the first DB(): no table, no row.
Init ==
    /\ now = 0
    /\ limit_until = 0
    /\ last_run = 0
    /\ db_items = Empty
    /\ pc = "menu"
    /\ discord = FALSE
    /\ items = Empty
    /\ prices = Empty
    /\ alert_items = <<>>
    /\ logged = <<>>
    /\ sends = 0
    /\ attempts = 0
    /\ accepted = 0
    /\ payload = <<>>
    /\ retry_after = None
    /\ rate_limits = 0
    /\ returned = "None"
    /\ state_rows = 0
    /\ call = NoCall
    /\ custom_dir = None
    /\ config = {}
    /\ user_version = 0
    /\ columns = NoTables
    /\ applied = <<>>

\* A new iteration of `while True` rebinds the locals of the last one.
ResetCycle ==
    /\ items' = Empty
    /\ prices' = Empty
    /\ alert_items' = <<>>
    /\ logged' = <<>>
    /\ sends' = 0
    /\ attempts' = 0
    /\ accepted' = 0
    /\ payload' = <<>>
    /\ retry_after' = None
    /\ rate_limits' = 0
    /\ returned' = "None"

\* Mutant of migrate: the row is inserted while there are fewer than two.
migrate_InsertsAgain(rows) == IF rows < 2 THEN rows + 1 ELSE rows

\* DB.__init__ / __migrate on the rows of table state:
\* if COUNT(*) < 1: INSERT INTO state ... VALUES (0, 0, NULL)
migrate(rows) == IF rows < 1 THEN rows + 1 ELSE rows

\* DB(): __migrate on the store as it is.  The rows of table items are
\* written by migrate_schema(...).items; a store this version of the program
\* created has every column, so its rows are left as they are.
OpenDB ==
    /\ state_rows' = migrate(state_rows)
    /\ user_version' = migrate_schema(user_version, columns, db_items).version
    /\ columns' = migrate_schema(user_version, columns, db_items).columns
    /\ applied' = migrate_schema(user_version, columns, db_items).applied

\* ------------------------------------------------------------------------
\* GW2API.__fetch: what it writes to the store
\* ------------------------------------------------------------------------
\* Mutant of FetchSuccessLimit: the stored cutoff is written back unchanged.
FetchSuccessLimit_Keep == limit_until

\* db.limit_until = 0 after urlopen returned
FetchSuccessLimit == 0

\* Mutant of RateLimitCutoff: the poll interval is added instead of the
\* rate-limit delay.
RateLimitCutoff_Interval(t) == t + CHECK_INTERVAL

\* db.limit_until = int(time.time()) + RATE_LIMIT_RETRY
RateLimitCutoff(t) == t + RATE_LIMIT_RETRY

\* ------------------------------------------------------------------------
\* main_menu: administrative operations
\* ------------------------------------------------------------------------
\* choice "1": monitor_mode() reads the webhook URL and enters the loop
StartMonitor ==
    /\ pc = "menu"
    /\ \E d \in BOOLEAN : discord' = d
    /\ pc' = "check"
    /\ UNCHANGED <<configVars, schemaVars, state_rows, call, now, storeVars, cycleVars, notifyVars>>

\* actionAdd(id, buy_threshold, sell_threshold): api.items([str(id)]) is sent
ActionAddCall ==
    /\ pc = "menu"
    /\ pc' = "add_fetch"
    /\ OpenDB
    /\ UNCHANGED <<configVars, call, now, storeVars, discord, cycleVars, notifyVars>>

\* actionAdd: HTTP 200; __fetch clears the cooldown and api.items returns
ActionAddFetched ==
    /\ pc = "add_fetch"
    /\ limit_until' = FetchSuccessLimit
    /\ pc' = "add_fetched"
    /\ OpenDB
    /\ UNCHANGED <<configVars, call, now, last_run, db_items, discord, cycleVars, notifyVars>>

\* actionAdd: parse both thresholds, then db.itemAdd; a ValueError of either
\* is printed and nothing is stored
ActionAddInsert ==
    /\ pc = "add_fetched"
    /\ \E id \in ItemIds : \E name \in ItemNames(id),
          buy_threshold \in PriceInputs, sell_threshold \in PriceInputs :
         LET buy_copper == parse_price_input(buy_threshold)
             sell_copper == parse_price_input(sell_threshold)
         IN db_items' = IF buy_copper = ValueError \/ sell_copper = ValueError
                           THEN db_items
                           ELSE itemAdd(db_items, id, name, buy_copper, sell_copper)
    /\ pc' = "menu"
    /\ UNCHANGED <<configVars, schemaVars, state_rows, call, now, limit_until, last_run, discord, cycleVars, notifyVars>>

\* actionAdd: HTTP 429; __fetch stores the cutoff and raises RateLimitHitException
ActionAddRateLimited ==
    /\ pc = "add_fetch"
    /\ limit_until' = RateLimitCutoff(now)
    /\ pc' = "add_rl_raised"
    /\ OpenDB
    /\ UNCHANGED <<configVars, call, now, last_run, db_items, discord, cycleVars, notifyVars>>

\* actionAdd: except RateLimitHitException: print; return
ActionAddCatch ==
    /\ pc = "add_rl_raised"
    /\ pc' = "menu"
    /\ UNCHANGED <<configVars, schemaVars, state_rows, call, now, storeVars, discord, cycleVars, notifyVars>>

\* actionAdd: any other failure of the request: print; return
ActionAddFailed ==
    /\ pc = "add_fetch"
    /\ pc' = "menu"
    /\ UNCHANGED <<configVars, schemaVars, state_rows, call, now, storeVars, discord, cycleVars, notifyVars>>

ActionDel ==
    /\ pc = "menu"
    /\ \E id \in ItemIds : db_items' = itemDel(db_items, id)
    /\ OpenDB
    /\ UNCHANGED <<configVars, call, now, limit_until, last_run, pc, discord, cycleVars, notifyVars>>

\* actionThreshold(id, buy_threshold=None, sell_threshold=None); a threshold
\* that is None or the empty text is not parsed (`if buy_threshold`).
ActionThreshold ==
    /\ pc = "menu"
    /\ \E id \in ItemIds, buy_threshold \in PriceInputs \cup {<<>>},
          sell_threshold \in PriceInputs \cup {<<>>} :
         LET buy_copper == IF buy_threshold # <<>> THEN parse_price_input(buy_threshold) ELSE None
             sell_copper == IF sell_threshold # <<>> THEN parse_price_input(sell_threshold) ELSE None
         IN db_items' = IF buy_copper = ValueError \/ sell_copper = ValueError
                           THEN db_items
                           ELSE itemThreshold(db_items, id, buy_copper, sell_copper)
    /\ OpenDB
    /\ UNCHANGED <<configVars, call, now, limit_until, last_run, pc, discord, cycleVars, notifyVars>>

\* clean_all_data: DELETE FROM items; UPDATE state SET last_run = 0, limit_until = 0
CleanAllData ==
    /\ pc = "menu"
    /\ db_items' = Empty
    /\ last_run' = 0
    /\ limit_until' = 0
    /\ OpenDB
    /\ UNCHANGED <<configVars, call, now, pc, discord, cycleVars, notifyVars>>

\* ------------------------------------------------------------------------
\* monitor_mode: the `while True` loop
\* ------------------------------------------------------------------------
\* Mutant of CooldownActive: the cooldown is taken to end one interval early.
CooldownActive_Early(t, limit) == t + CHECK_INTERVAL < limit

\* if time.time() < db.limit_until
CooldownActive(t, limit) == t < limit

\* Mutant of CooldownSleep: the cooldown sleep is always the poll interval.
CooldownSleep_Interval(t, limit) == CHECK_INTERVAL

\* time.sleep(min(wait_time, CHECK_INTERVAL)), wait_time = db.limit_until - time.time()
CooldownSleep(t, limit) == Min(limit - t, CHECK_INTERVAL)

\* time.sleep(d) can be explored from the current clock (see MaxTime).
CanSleep(d) ==
    /\ now + d <= MaxTime
    /\ (0 < d /\ d < CHECK_INTERVAL) => now >= MaxTime - MaxIdleTime

\* Top of the loop, still rate limited: sleep, then `continue`.
CheckCooldown ==
    /\ pc = "check"
    /\ CooldownActive(now, limit_until)
    /\ now + CooldownSleep(now, limit_until) <= MaxTime
    /\ now' = now + CooldownSleep(now, limit_until)
    /\ pc' = "check"
    /\ OpenDB
    /\ UNCHANGED <<configVars, call, storeVars, discord, cycleVars, notifyVars>>

\* Mutant of CheckEmpty: the listings request is sent for an empty table.
CheckEmpty_Fetches ==
    /\ pc = "check"
    /\ ~CooldownActive(now, limit_until)
    /\ DOMAIN db_items = {}
    /\ pc' = "fetch"
    /\ OpenDB
    /\ UNCHANGED <<configVars, call, now, storeVars, discord, cycleVars, notifyVars>>

\* Top of the loop, no cooldown, no items: time.sleep(10), then `continue`.
CheckEmpty ==
    /\ pc = "check"
    /\ ~CooldownActive(now, limit_until)
    /\ DOMAIN db_items = {}
    /\ CanSleep(EMPTY_SLEEP)
    /\ now' = now + EMPTY_SLEEP
    /\ pc' = "check"
    /\ OpenDB
    /\ UNCHANGED <<configVars, call, storeVars, discord, cycleVars, notifyVars>>

\* Top of the loop, no cooldown: items = db.items(); api.listings(ids) is sent.
IssueFetch ==
    /\ pc = "check"
    /\ ~CooldownActive(now, limit_until)
    /\ DOMAIN db_items # {}
    /\ items' = [k \in DOMAIN db_items |->
                   [name |-> db_items[k].name,
                    buy_threshold |-> db_items[k].buy_threshold,
                    sell_threshold |-> db_items[k].sell_threshold]]
    /\ pc' = "fetch"
    /\ OpenDB
    /\ UNCHANGED <<configVars, call, now, storeVars, discord, prices, alert_items, logged, notifyVars>>

\* Mutant of FetchRateLimited: the exception is raised without the store write.
FetchRateLimited_NoStore ==
    /\ pc = "fetch"
    /\ pc' = "rl_raised"
    /\ OpenDB
    /\ UNCHANGED <<configVars, call, now, storeVars, discord, cycleVars, notifyVars>>

\* HTTP 429: __fetch stores the cutoff, then raises RateLimitHitException.
FetchRateLimited ==
    /\ pc = "fetch"
    /\ limit_until' = RateLimitCutoff(now)
    /\ pc' = "rl_raised"
    /\ OpenDB
    /\ UNCHANGED <<configVars, call, now, last_run, db_items, discord, cycleVars, notifyVars>>

\* except RateLimitHitException: time.sleep(CHECK_INTERVAL); continue
CatchRateLimited ==
    /\ pc = "rl_raised"
    /\ CanSleep(CHECK_INTERVAL)
    /\ now' = now + CHECK_INTERVAL
    /\ pc' = "check"
    /\ ResetCycle
    /\ UNCHANGED <<configVars, schemaVars, state_rows, call, storeVars, discord>>

\* Mutant of FetchFailed: every HTTPError is handled as a 429.
FetchFailed_StoresCutoff ==
    /\ pc = "fetch"
    /\ limit_until' = RateLimitCutoff(now)
    /\ pc' = "err_wait"
    /\ OpenDB
    /\ UNCHANGED <<configVars, call, now, last_run, db_items, discord, cycleVars, notifyVars>>

\* Mutant of FetchFailed: the error is not caught and ends monitor_mode.
FetchFailed_Escapes ==
    /\ pc = "fetch"
    /\ pc' = "menu"
    /\ UNCHANGED <<configVars, schemaVars, state_rows, call, now, storeVars, discord, cycleVars, notifyVars>>

\* Any other failure of urlopen: the inner except Exception prints, then the
\* interval sleep.
FetchFailed ==
    /\ pc = "fetch"
    /\ pc' = "err_wait"
    /\ UNCHANGED <<configVars, schemaVars, state_rows, call, now, storeVars, discord, cycleVars, notifyVars>>

\* HTTP 200 whose body json.loads rejects: the cooldown is already cleared.
FetchBadBody ==
    /\ pc = "fetch"
    /\ limit_until' = FetchSuccessLimit
    /\ pc' = "err_wait"
    /\ OpenDB
    /\ UNCHANGED <<configVars, call, now, last_run, db_items, discord, cycleVars, notifyVars>>

\* HTTP 200: __fetch clears the cooldown, listings() builds `prices`, and the
\* for loop runs: update_prices, the two threshold tests and the log lines
\* per item, up to the first id `prices` has no entry for (KeyError, caught
\* by the outer except Exception, which prints and sleeps the interval).
FetchOk ==
    /\ pc = "fetch"
    /\ limit_until' = FetchSuccessLimit
    /\ \E raw \in RawResponses(DOMAIN items) :
         LET fetched == listings(raw)
             order == SortedIds(DOMAIN items)
             done == Completed(order, fetched)
         IN /\ prices' = fetched
            /\ db_items' = LoopStore(db_items, done, fetched)
            /\ logged' = LogLines(LoopAlerts(items, done, fetched))
            /\ IF Len(done) = Len(order)
                 THEN /\ alert_items' = LoopAlerts(items, done, fetched)
                      /\ pc' = "evaluated"
                 ELSE /\ alert_items' = <<>>
                      /\ pc' = "abort_wait"
    /\ OpenDB
    /\ UNCHANGED <<configVars, call, now, last_run, discord, items, notifyVars>>

\* if alert_items and discord: discord.send_alert(alert_items) -- the request is sent
Notify ==
    /\ pc = "evaluated"
    /\ alert_items # <<>> /\ discord
    /\ sends' = sends + 1
    /\ attempts' = attempts + 1
    /\ payload' = Embeds(alert_items)
    /\ pc' = "sending"
    /\ UNCHANGED <<configVars, schemaVars, state_rows, call, now, storeVars, discord, cycleVars, accepted, retry_after,
                   rate_limits, returned>>

\* No alert, or no webhook: print_status(...), then the interval sleep.
SkipNotify ==
    /\ pc = "evaluated"
    /\ ~(alert_items # <<>> /\ discord)
    /\ pc' = "cycle_wait"
    /\ UNCHANGED <<configVars, schemaVars, state_rows, call, now, storeVars, discord, cycleVars, notifyVars>>

\* The channel accepted: send_alert returns True; print_status; interval sleep.
SendAccepted ==
    /\ pc = "sending"
    /\ accepted' = accepted + 1
    /\ returned' = "True"
    /\ pc' = "cycle_wait"
    /\ UNCHANGED <<configVars, schemaVars, state_rows, call, now, storeVars, discord, cycleVars, sends, attempts, payload,
                   retry_after, rate_limits>>

\* Retry-After headers the channel may send (None: header absent).
RetryAfterHeaders == {None, 0}

\* retry_after = e.headers.get('Retry-After', 5)
RetryAfter(header) == IF header = None THEN DEFAULT_RETRY_AFTER ELSE header

\* HTTP 429 from the channel: the delay is read from the answer.
SendRateLimited ==
    /\ pc = "sending"
    /\ \E header \in RetryAfterHeaders :
         /\ CanSleep(RetryAfter(header))
         /\ retry_after' = RetryAfter(header)
    /\ rate_limits' = rate_limits + 1
    /\ pc' = "retry_wait"
    /\ UNCHANGED <<configVars, schemaVars, state_rows, call, now, storeVars, discord, cycleVars, sends, attempts, accepted,
                   payload, returned>>

\* Mutant of SendRetry: the retry posts the message twice.
SendRetry_SendsTwice ==
    /\ pc = "retry_wait"
    /\ attempts <= MaxRetries
    /\ now' = now + retry_after
    /\ attempts' = attempts + 2
    /\ payload' = Embeds(alert_items)
    /\ retry_after' = None
    /\ pc' = "sending"
    /\ UNCHANGED <<configVars, schemaVars, state_rows, call, storeVars, discord, cycleVars, sends, accepted, rate_limits,
                   returned>>

\* time.sleep(float(retry_after)); return self.send_alert(alert_items):
\* the same alerts are sent again.
SendRetry ==
    /\ pc = "retry_wait"
    /\ attempts <= MaxRetries
    /\ now' = now + retry_after
    /\ attempts' = attempts + 1
    /\ payload' = Embeds(alert_items)
    /\ retry_after' = None
    /\ pc' = "sending"
    /\ UNCHANGED <<configVars, schemaVars, state_rows, call, storeVars, discord, cycleVars, sends, accepted, rate_limits,
                   returned>>

\* Mutant of SendRecursionError: the RecursionError escapes send_alert and
\* reaches the outer except Exception of the loop.
SendRecursionError_Escapes ==
    /\ pc = "retry_wait"
    /\ attempts > MaxRetries
    /\ now' = now + retry_after
    /\ retry_after' = None
    /\ pc' = "abort_wait"
    /\ UNCHANGED <<configVars, schemaVars, state_rows, call, storeVars, discord, cycleVars, sends,
                   attempts, accepted, payload, rate_limits, returned>>

\* time.sleep(float(retry_after)); return self.send_alert(alert_items) once
\* the nested calls have used up the interpreter's recursion limit: the new
\* call raises RecursionError before it posts anything, its own
\* `except Exception` prints it and returns False, and every enclosing call
\* returns that value.
SendRecursionError ==
    /\ pc = "retry_wait"
    /\ attempts > MaxRetries
    /\ now' = now + retry_after
    /\ retry_after' = None
    /\ returned' = "False"
    /\ pc' = "cycle_wait"
    /\ UNCHANGED <<configVars, schemaVars, state_rows, call, storeVars, discord, cycleVars, sends,
                   attempts, accepted, payload, rate_limits>>

\* Mutant of SendFailed: the delivery error escapes send_alert and reaches the
\* outer except Exception of the loop.
SendFailed_Raises ==
    /\ pc = "sending"
    /\ pc' = "abort_wait"
    /\ UNCHANGED <<configVars, schemaVars, state_rows, call, now, storeVars, discord, cycleVars, notifyVars>>

\* Any other delivery failure: printed, send_alert returns False;
\* print_status; interval sleep.
SendFailed ==
    /\ pc = "sending"
    /\ returned' = "False"
    /\ pc' = "cycle_wait"
    /\ UNCHANGED <<configVars, schemaVars, state_rows, call, now, storeVars, discord, cycleVars, sends, attempts, accepted,
                   payload, retry_after, rate_limits>>

\* time.sleep(CHECK_INTERVAL) at the end of a cycle (line 546) or in an
\* exception handler (lines 505, 553); then the next iteration.
Sleep ==
    /\ pc \in {"cycle_wait", "err_wait", "abort_wait"}
    /\ CanSleep(CHECK_INTERVAL)
    /\ now' = now + CHECK_INTERVAL
    /\ pc' = "check"
    /\ ResetCycle
    /\ UNCHANGED <<configVars, schemaVars, state_rows, call, storeVars, discord>>

\* except KeyboardInterrupt: break -- Ctrl+C anywhere in the loop.
Interrupt ==
    /\ pc \notin {"menu", "add_fetch", "add_fetched", "add_rl_raised"}
    /\ pc' = "menu"
    /\ discord' = FALSE
    /\ ResetCycle
    /\ UNCHANGED <<configVars, schemaVars, state_rows, call, now, storeVars>>

Next ==
    \/ StartMonitor
    \/ ActionAddCall
    \/ ActionAddFetched
    \/ ActionAddInsert
    \/ ActionAddRateLimited
    \/ ActionAddCatch
    \/ ActionAddFailed
    \/ ActionDel
    \/ ActionThreshold
    \/ CleanAllData
    \/ CheckCooldown
    \/ CheckEmpty
    \/ IssueFetch
    \/ FetchRateLimited
    \/ CatchRateLimited
    \/ FetchFailed
    \/ FetchBadBody
    \/ FetchOk
    \/ Notify
    \/ SkipNotify
    \/ SendAccepted
    \/ SendRateLimited
    \/ SendRetry
    \/ SendRecursionError
    \/ SendFailed
    \/ Sleep
    \/ Interrupt

Spec == Init /\ [][Next]_vars

\* ------------------------------------------------------------------------
\* Direct calls: the methods of DB, DiscordNotify.send_alert and
\* clean_all_data called one after another on one store, with arguments of
\* every kind (CallSpec).  The record `call` holds the last call and what it
\* returned; the locals of monitor_mode describe the last call only.
\* ------------------------------------------------------------------------
\* Thresholds and prices passed to the methods, in copper.
Coppers == {0, 1}

\* lowest_seen arguments of update_prices (None: argument left out).
LowestSeenArgs == {None, 0}

CallNames == UNION {ItemNames(id) : id \in ItemIds}

CallEvent(trigger) ==
    Event([name |-> "Bolt"], Order(1, 1), IF trigger = "buy" THEN 0 ELSE 2, trigger)

\* alert_items lists passed to send_alert.
CallAlerts ==
    {<<>>, <<CallEvent("buy")>>, <<CallEvent("sell")>>, <<CallEvent("buy"), CallEvent("sell")>>}

Called(op, id, name, buy, sell, lowest_seen, ret) ==
    [op |-> op, id |-> id, name |-> name, buy |-> buy, sell |-> sell,
     lowest_seen |-> lowest_seen, ret |-> ret]

PyBool(b) == IF b THEN "True" ELSE "False"

\* A DB object has been constructed on the store file an earlier run
\* created: the state row and every column are there, no upgrade step ran.
CallInit ==
    /\ now = 0
    /\ limit_until = 0
    /\ last_run = 0
    /\ db_items = Empty
    /\ pc = "call"
    /\ discord = FALSE
    /\ items = Empty
    /\ prices = Empty
    /\ alert_items = <<>>
    /\ logged = <<>>
    /\ sends = 0
    /\ attempts = 0
    /\ accepted = 0
    /\ payload = <<>>
    /\ retry_after = None
    /\ rate_limits = 0
    /\ returned = "None"
    /\ state_rows = migrate(0)
    /\ call = NoCall
    /\ custom_dir = None
    /\ config = {}
    /\ user_version = migrate_schema(0, NoTables, Empty).version
    /\ columns = migrate_schema(0, NoTables, Empty).columns
    /\ applied = <<>>

\* db.itemAdd(id, name, iconUrl, buy_threshold, sell_threshold)
CallItemAdd ==
    /\ pc = "call"
    /\ \E id \in ItemIds, name \in CallNames, buy_threshold \in Coppers, sell_threshold \in Coppers :
         /\ db_items' = itemAdd(db_items, id, name, buy_threshold, sell_threshold)
         /\ call' = Called("itemAdd", id, name, buy_threshold, sell_threshold, None,
                           IF itemAddRaises(db_items, id, name) THEN "ValueError" ELSE "None")
    /\ ResetCycle
    /\ UNCHANGED <<configVars, schemaVars, now, limit_until, last_run, state_rows, pc, discord>>

\* db.itemDel(id)
CallItemDel ==
    /\ pc = "call"
    /\ \E id \in ItemIds :
         /\ db_items' = itemDel(db_items, id)
         /\ call' = Called("itemDel", id, "", None, None, None, PyBool(itemDel_ret(db_items, id)))
    /\ ResetCycle
    /\ UNCHANGED <<configVars, schemaVars, now, limit_until, last_run, state_rows, pc, discord>>

\* db.itemThreshold(id, buy_threshold, sell_threshold)
CallItemThreshold ==
    /\ pc = "call"
    /\ \E id \in ItemIds, buy_threshold \in Coppers \cup {None}, sell_threshold \in Coppers \cup {None} :
         /\ db_items' = itemThreshold(db_items, id, buy_threshold, sell_threshold)
         /\ call' = Called("itemThreshold", id, "", buy_threshold, sell_threshold, None,
                           PyBool(itemThreshold_ret(db_items, id, buy_threshold, sell_threshold)))
    /\ ResetCycle
    /\ UNCHANGED <<configVars, schemaVars, now, limit_until, last_run, state_rows, pc, discord>>

\* db.update_prices(itemId, buy_price, sell_price, lowest_seen)
CallUpdatePrices ==
    /\ pc = "call"
    /\ \E itemId \in ItemIds, buy_price \in Coppers, sell_price \in Coppers,
          lowest_seen \in LowestSeenArgs :
         /\ db_items' = update_prices(db_items, itemId, buy_price, sell_price, lowest_seen)
         /\ call' = Called("update_prices", itemId, "", buy_price, sell_price, lowest_seen,
                           PyBool(update_prices_ret(db_items, itemId)))
    /\ ResetCycle
    /\ UNCHANGED <<configVars, schemaVars, now, limit_until, last_run, state_rows, pc, discord>>

\* db.limit_until = value (DB.__setattr__), with the values GW2API.__fetch
\* writes: 0 and a cutoff.
CallSetLimit ==
    /\ pc = "call"
    /\ \E value \in {FetchSuccessLimit, RateLimitCutoff(now)} : limit_until' = value
    /\ call' = Called("__setattr__", None, "limit_until", None, None, None, "None")
    /\ ResetCycle
    /\ UNCHANGED <<configVars, schemaVars, now, last_run, db_items, state_rows, pc, discord>>

\* clean_all_data()
CallCleanAllData ==
    /\ pc = "call"
    /\ OpenDB
    /\ db_items' = Empty
    /\ last_run' = 0
    /\ limit_until' = 0
    /\ call' = Called("clean_all_data", None, "", None, None, None, "True")
    /\ ResetCycle
    /\ UNCHANGED <<configVars, now, pc, discord>>

\* Mutant of SendAlertNoOp: the guard on the empty list is missing.
SendAlertNoOp_Never(alerts) == FALSE

\* send_alert: if not alert_items: return False
SendAlertNoOp(alerts) == alerts = <<>>

\* discord.send_alert(alert_items) with a channel that answers the request
\* at once: accepted (True) or any error other than 429 (False).
CallSendAlert ==
    /\ pc = "call"
    /\ \E alerts \in CallAlerts, answer \in BOOLEAN :
         /\ alert_items' = alerts
         /\ IF SendAlertNoOp(alerts)
              THEN /\ attempts' = 0
                   /\ accepted' = 0
                   /\ payload' = <<>>
                   /\ returned' = "False"
              ELSE /\ attempts' = 1
                   /\ accepted' = IF answer THEN 1 ELSE 0
                   /\ payload' = Embeds(alerts)
                   /\ returned' = PyBool(answer)
         /\ call' = Called("send_alert", None, "", None, None, None, returned')
    /\ UNCHANGED <<configVars, schemaVars, now, storeVars, state_rows, pc, discord, items, prices, logged, sends,
                   retry_after, rate_limits>>

CallNext ==
    \/ CallItemAdd
    \/ CallItemDel
    \/ CallItemThreshold
    \/ CallUpdatePrices
    \/ CallSetLimit
    \/ CallCleanAllData
    \/ CallSendAlert

CallSpec == CallInit /\ [][CallNext]_vars

\* ------------------------------------------------------------------------
\* Stores of earlier versions: DB() opens a store file whatever version wrote
\* it, clean_all_data empties it, the columns of table state are assigned
\* through DB.__setattr__ and configure_settings edits the JSON file
\* (StoreSpec).  pc is "closed" until this version has opened the store.
\* ------------------------------------------------------------------------
ConfigKeys == {"GW2_API_TOKEN", "DISCORD_WEBHOOK_URL", "CUSTOM_DATA_DIR"}

\* The columns a store with marker v must have: those the steps up to v add.
\* Before step 4 table items has one column `threshold`.
VersionColumns(v) ==
    (IF v >= 1 THEN {"icon_url"} ELSE {})
      \cup (IF v >= 2 THEN {"last_buy_price", "last_sell_price"} ELSE {})
      \cup (IF v >= 3 THEN {"custom_dir"} ELSE {})
      \cup (IF v >= 4 THEN {"buy_threshold", "sell_threshold"} ELSE {})

\* The stores __migrate can meet: marker v with at least the columns of v.
\* Columns of later steps may be there already, because CREATE TABLE creates
\* all of them in a new file and because each ALTER TABLE takes effect before
\* the marker is written.
StoreSchemas ==
    {[version |-> v, columns |-> VersionColumns(v) \cup extra \cup thresholds] :
        v \in 0..SCHEMA_VERSION,
        extra \in SUBSET {"icon_url", "last_buy_price", "last_sell_price", "custom_dir"},
        thresholds \in {{"threshold"}, {"buy_threshold", "sell_threshold"}}}
      \ {s \in [version : {SCHEMA_VERSION}, columns : SUBSET (AllColumns \cup {"threshold"})] :
            "threshold" \in s.columns}

\* The value a row holds in a column the table does not have yet.
Cell(cols, column, value) == IF column \in cols THEN value ELSE None

\* Table items of an existing store: empty, or one row with (buy) threshold 1
\* and, where the column exists, sell threshold 0.
StoreItems(cols) ==
    {Empty,
     [id \in {1} |->
        [name |-> "Bolt", buy_threshold |-> 1,
         sell_threshold |-> Cell(cols, "sell_threshold", 0),
         lowest_seen |-> LOWEST_SEEN_DEFAULT,
         last_buy_price |-> Cell(cols, "last_buy_price", 1),
         last_sell_price |-> Cell(cols, "last_sell_price", 1)]]}

\* Either no store file yet, or a store some version left behind with its
\* one state row; the configuration file holds any of its keys.
StoreInit ==
    /\ now = 0
    /\ limit_until = 0
    /\ last_run = 0
    /\ pc = "closed"
    /\ discord = FALSE
    /\ items = Empty
    /\ prices = Empty
    /\ alert_items = <<>>
    /\ logged = <<>>
    /\ sends = 0
    /\ attempts = 0
    /\ accepted = 0
    /\ payload = <<>>
    /\ retry_after = None
    /\ rate_limits = 0
    /\ returned = "None"
    /\ call = NoCall
    /\ custom_dir = None
    /\ config \in SUBSET ConfigKeys
    /\ applied = <<>>
    /\ \/ /\ user_version = 0
          /\ columns = NoTables
          /\ db_items = Empty
          /\ state_rows = 0
       \/ /\ \E s \in StoreSchemas :
               /\ user_version = s.version
               /\ columns = s.columns
               /\ db_items \in StoreItems(s.columns)
          /\ state_rows = 1

\* db = DB()
StoreOpen ==
    /\ pc \in {"closed", "store"}
    /\ OpenDB
    /\ db_items' = migrate_schema(user_version, columns, db_items).items
    /\ pc' = "store"
    /\ call' = Called("DB", None, "", None, None, None, "None")
    /\ UNCHANGED <<configVars, now, limit_until, last_run, discord, cycleVars, notifyVars>>

\* Mutant of StoreCleanAllData: the UPDATE resets every column of table state.
StoreCleanAllData_AllColumns ==
    /\ pc \in {"closed", "store"}
    /\ OpenDB
    /\ db_items' = Empty
    /\ last_run' = 0
    /\ limit_until' = 0
    /\ custom_dir' = None
    /\ pc' = "store"
    /\ call' = Called("clean_all_data", None, "", None, None, None, "True")
    /\ UNCHANGED <<config, now, discord, cycleVars, notifyVars>>

\* clean_all_data(): db = DB(); DELETE FROM items;
\* UPDATE state SET last_run = 0, limit_until = 0; the log files are emptied
StoreCleanAllData ==
    /\ pc \in {"closed", "store"}
    /\ OpenDB
    /\ db_items' = Empty
    /\ last_run' = 0
    /\ limit_until' = 0
    /\ pc' = "store"
    /\ call' = Called("clean_all_data", None, "", None, None, None, "True")
    /\ UNCHANGED <<configVars, now, discord, cycleVars, notifyVars>>

\* Values assigned to a column of table state.
StateValues == {0, 1}

\* db.<name> = value for a name of DB.stateVars: UPDATE state SET <name> = ?
StoreSetAttr ==
    /\ pc = "store"
    /\ \E name \in {"last_run", "limit_until", "custom_dir"}, value \in StateValues :
         /\ last_run' = IF name = "last_run" THEN value ELSE last_run
         /\ limit_until' = IF name = "limit_until" THEN value ELSE limit_until
         /\ custom_dir' = IF name = "custom_dir" THEN value ELSE custom_dir
         /\ call' = Called("__setattr__", None, name, None, None, None, "None")
    /\ UNCHANGED <<config, schemaVars, now, db_items, state_rows, pc, discord,
                   cycleVars, notifyVars>>

\* configure_settings, choices 1 and 2: the key is stored, or removed when
\* the input is blank, and the file is saved.  (Choice 3 makes DB() use the
\* store file of another directory; the store followed here stays the one
\* the configuration names at the start.)
StoreConfigure ==
    /\ \E key \in {"GW2_API_TOKEN", "DISCORD_WEBHOOK_URL"}, blank \in BOOLEAN :
         /\ config' = IF blank THEN config \ {key} ELSE config \cup {key}
         /\ call' = Called("configure_settings", None, key, None, None, None, "None")
    /\ UNCHANGED <<custom_dir, schemaVars, now, storeVars, state_rows, pc, discord,
                   cycleVars, notifyVars>>

StoreNext ==
    \/ StoreOpen
    \/ StoreCleanAllData
    \/ StoreSetAttr
    \/ StoreConfigure

StoreSpec == StoreInit /\ [][StoreNext]_vars

\* ------------------------------------------------------------------------
\* Price texts: format_price and parse_price_input applied to amounts and to
\* texts of every kind, each to the result of the other as well (PriceSpec).
\* The record `call` holds the function applied last, its argument `arg`
\* and, after it, the amount `copper` and the text `text` at hand.
\* ------------------------------------------------------------------------
\* The largest amount formatted, in copper.
MaxCopper == 12345

\* \d+<unit> for the number n, with `zeros` leading zeros.
Group(n, zeros, unit) == [i \in 1..zeros |-> "0"] \o str(n) \o <<unit>>

GoldGroups == {<<>>} \cup {Group(n, z, "g") : n \in {0, 1, 12}, z \in {0, 1}}
SilverGroups == {<<>>} \cup {Group(n, z, "s") : n \in {0, 5, 23, 150}, z \in {0, 1}}
CopperGroups == {<<>>} \cup {Group(n, z, "c") : n \in {0, 7, 45, 100}, z \in {0, 2}}

\* Texts typed as a price: the groups in the order of the pattern, the same
\* with blanks around and in capitals, and texts the pattern rejects.
PriceTexts ==
    {g \o s \o c : g \in GoldGroups, s \in SilverGroups, c \in CopperGroups}
      \cup {<<" ">> \o g \o <<"S">> \o <<" ">> : g \in {<<"1", "G", "2">>, <<"3">>}}
      \cup {<<"1", "x">>, <<"c">>, <<"1", "2">>, <<"1", "s", "1", "g">>,
            <<"1", "g", " ", "2", "s">>, <<"1", "g", "1", "g">>, <<"-", "1", "c">>,
            <<"1", ".", "5", "g">>}

PriceCall(op, arg, copper, text) == [op |-> op, arg |-> arg, copper |-> copper, text |-> text]

\* An amount or a text is at hand; nothing has been applied to it.
PriceInit ==
    /\ now = 0
    /\ limit_until = 0
    /\ last_run = 0
    /\ db_items = Empty
    /\ pc = "price"
    /\ discord = FALSE
    /\ items = Empty
    /\ prices = Empty
    /\ alert_items = <<>>
    /\ logged = <<>>
    /\ sends = 0
    /\ attempts = 0
    /\ accepted = 0
    /\ payload = <<>>
    /\ retry_after = None
    /\ rate_limits = 0
    /\ returned = "None"
    /\ state_rows = 0
    /\ custom_dir = None
    /\ config = {}
    /\ user_version = 0
    /\ columns = NoTables
    /\ applied = <<>>
    /\ \/ \E n \in 0..MaxCopper : call = PriceCall("", None, n, <<>>)
       \/ \E x \in PriceTexts : call = PriceCall("", None, None, x)

\* format_price(copper) of the amount at hand (None and ValueError are no
\* amounts)
CallFormatPrice ==
    /\ pc = "price"
    /\ call.copper >= 0
    /\ call' = PriceCall("format_price", call.copper, call.copper, format_price(call.copper))
    /\ UNCHANGED <<now, storeVars, pc, discord, cycleVars, notifyVars, state_rows,
                   configVars, schemaVars>>

\* parse_price_input(price_str) of the text at hand; a ValueError leaves
\* no amount.
CallParsePrice ==
    /\ pc = "price"
    /\ call' = PriceCall("parse_price_input", call.text, parse_price_input(call.text), call.text)
    /\ UNCHANGED <<now, storeVars, pc, discord, cycleVars, notifyVars, state_rows,
                   configVars, schemaVars>>

PriceNext ==
    \/ CallFormatPrice
    \/ CallParsePrice

PriceSpec == PriceInit /\ [][PriceNext]_vars

\* ------------------------------------------------------------------------
\* Administrative commands: actionAdd and actionThreshold run from the call
\* to the return, one after another on one store (AdminSpec).  The record
\* `call` holds the last command, the id it named and how it ended.
\* ------------------------------------------------------------------------
\* What the price API answers to api.items([id]).
ItemsAnswers == {"200", "429", "error"}

\* actionAdd(id, buy_threshold, sell_threshold) from the call to its return:
\* api.items first (429: the cutoff is stored and the call ends; any other
\* failure: the call ends; 200: limit_until = 0), then both thresholds are
\* parsed and the row inserted; a ValueError of either is printed.
RunActionAdd ==
    /\ pc = "admin"
    /\ \E id \in ItemIds, answer \in ItemsAnswers :
       \E name \in ItemNames(id), buy_threshold \in PriceInputs, sell_threshold \in PriceInputs :
         LET buy_copper == parse_price_input(buy_threshold)
             sell_copper == parse_price_input(sell_threshold)
             invalid == buy_copper = ValueError \/ sell_copper = ValueError
         IN /\ limit_until' = CASE answer = "200" -> FetchSuccessLimit
                                [] answer = "429" -> RateLimitCutoff(now)
                                [] OTHER -> limit_until
            /\ db_items' = IF answer = "200" /\ ~invalid
                             THEN itemAdd(db_items, id, name, buy_copper, sell_copper)
                             ELSE db_items
            /\ call' = Called("actionAdd", id, "", None, None, None,
                              CASE answer = "429" -> "RateLimitHitException"
                                [] answer = "error" -> "Exception"
                                [] OTHER -> IF invalid \/ itemAddRaises(db_items, id, name)
                                              THEN "ValueError" ELSE "None")
    /\ OpenDB
    /\ ResetCycle
    /\ UNCHANGED <<configVars, now, last_run, pc, discord>>

\* Mutant of RunActionThreshold: a threshold that parses is stored although
\* the other one is rejected.
RunActionThreshold_StoresValid ==
    /\ pc = "admin"
    /\ \E id \in ItemIds, buy_threshold \in PriceInputs \cup {<<>>},
          sell_threshold \in PriceInputs \cup {<<>>} :
         LET buy_copper == IF buy_threshold # <<>> THEN parse_price_input(buy_threshold) ELSE None
             sell_copper == IF sell_threshold # <<>> THEN parse_price_input(sell_threshold) ELSE None
             invalid == buy_copper = ValueError \/ sell_copper = ValueError
         IN /\ db_items' = itemThreshold(db_items, id,
                                         IF buy_copper = ValueError THEN None ELSE buy_copper,
                                         IF sell_copper = ValueError THEN None ELSE sell_copper)
            /\ call' = Called("actionThreshold", id, "", None, None, None,
                              IF invalid THEN "ValueError"
                              ELSE PyBool(itemThreshold_ret(db_items, id, buy_copper, sell_copper)))
    /\ OpenDB
    /\ ResetCycle
    /\ UNCHANGED <<configVars, now, limit_until, last_run, pc, discord>>

\* actionThreshold(id, buy_threshold, sell_threshold) from the call to its
\* return: both texts are parsed before db.itemThreshold is called.
RunActionThreshold ==
    /\ pc = "admin"
    /\ \E id \in ItemIds, buy_threshold \in PriceInputs \cup {<<>>},
          sell_threshold \in PriceInputs \cup {<<>>} :
         LET buy_copper == IF buy_threshold # <<>> THEN parse_price_input(buy_threshold) ELSE None
             sell_copper == IF sell_threshold # <<>> THEN parse_price_input(sell_threshold) ELSE None
             invalid == buy_copper = ValueError \/ sell_copper = ValueError
         IN /\ db_items' = IF invalid THEN db_items
                             ELSE itemThreshold(db_items, id, buy_copper, sell_copper)
            /\ call' = Called("actionThreshold", id, "", None, None, None,
                              IF invalid THEN "ValueError"
                              ELSE PyBool(itemThreshold_ret(db_items, id, buy_copper, sell_copper)))
    /\ OpenDB
    /\ ResetCycle
    /\ UNCHANGED <<configVars, now, limit_until, last_run, pc, discord>>

\* A DB object has been constructed on the store file an earlier run
\* created.
AdminInit ==
    /\ now = 0
    /\ limit_until = 0
    /\ last_run = 0
    /\ db_items = Empty
    /\ pc = "admin"
    /\ discord = FALSE
    /\ items = Empty
    /\ prices = Empty
    /\ alert_items = <<>>
    /\ logged = <<>>
    /\ sends = 0
    /\ attempts = 0
    /\ accepted = 0
    /\ payload = <<>>
    /\ retry_after = None
    /\ rate_limits = 0
    /\ returned = "None"
    /\ state_rows = migrate(0)
    /\ call = NoCall
    /\ custom_dir = None
    /\ config = {}
    /\ user_version = migrate_schema(0, NoTables, Empty).version
    /\ columns = migrate_schema(0, NoTables, Empty).columns
    /\ applied = <<>>

AdminNext ==
    \/ RunActionAdd
    \/ RunActionThreshold

AdminSpec == AdminInit /\ [][AdminNext]_vars

\* ------------------------------------------------------------------------
\* monitor_mode on its own, from its start to KeyboardInterrupt, with the
\* steps it is bound to take (LiveSpec): a sleep returns and the loop goes
\* on, and a request ends with an answer or with an error.
\* ------------------------------------------------------------------------
\* Cutoffs found in the store when the loop starts: none, or the cutoff of a
\* 429 answered before the start, still ahead or already past.
LiveCutoffs == {0, 100, 700, 1200}

\* monitor_mode has been entered, at time 0 or late, on a store that holds
\* no item or one item.
LiveInit ==
    /\ now \in {0, MaxTime - MaxIdleTime}
    /\ limit_until \in LiveCutoffs
    /\ last_run = 0
    /\ db_items \in {Empty, itemAdd(Empty, 1, "Bolt", 0, 1)}
    /\ pc = "check"
    /\ discord \in BOOLEAN
    /\ items = Empty
    /\ prices = Empty
    /\ alert_items = <<>>
    /\ logged = <<>>
    /\ sends = 0
    /\ attempts = 0
    /\ accepted = 0
    /\ payload = <<>>
    /\ retry_after = None
    /\ rate_limits = 0
    /\ returned = "None"
    /\ state_rows = migrate(0)
    /\ call = NoCall
    /\ custom_dir = None
    /\ config = {}
    /\ user_version = migrate_schema(0, NoTables, Empty).version
    /\ columns = migrate_schema(0, NoTables, Empty).columns
    /\ applied = <<>>

\* The steps of the loop itself.
LoopStep ==
    \/ CheckCooldown
    \/ CheckEmpty
    \/ IssueFetch
    \/ CatchRateLimited
    \/ Notify
    \/ SkipNotify
    \/ SendRetry
    \/ SendRecursionError
    \/ Sleep

\* A request in flight ends: urlopen returns or raises.
Answered ==
    \/ FetchRateLimited
    \/ FetchFailed
    \/ FetchBadBody
    \/ FetchOk
    \/ SendAccepted
    \/ SendRateLimited
    \/ SendFailed

LiveNext ==
    \/ LoopStep
    \/ Answered
    \/ Interrupt

LiveSpec == LiveInit /\ [][LiveNext]_vars /\ WF_vars(LoopStep) /\ WF_vars(Answered)

\* ------------------------------------------------------------------------
\* Properties
\* ------------------------------------------------------------------------
ApiCallInFlight == pc \in {"fetch", "add_fetch"}

RateLimitRaised == pc \in {"rl_raised", "add_rl_raised"}

\* The step is an HTTP 429 answer of the price API.
RateLimitStep ==
    \/ pc = "fetch" /\ pc' = "rl_raised"
    \/ pc = "add_fetch" /\ pc' = "add_rl_raised"

\* The step is an HTTP 200 answer of the price API.
ApiSuccessStep ==
    \/ pc = "fetch" /\ pc' \in {"evaluated", "abort_wait"}
    \/ pc = "fetch" /\ pc' = "err_wait" /\ limit_until' = 0
    \/ pc = "add_fetch" /\ pc' = "add_fetched"

\* The step is clean_all_data.
CleanStep == pc = "menu" /\ pc' = "menu" /\ db_items' = Empty /\ last_run' = 0

\* C1: monitor_mode has a listings request in flight only at a time >= the
\* stored limit_until; at the top of the loop with now < limit_until its only
\* step is the cooldown sleep of min(limit_until - now, CHECK_INTERVAL)
\* followed by the re-check (or the interrupt that ends the loop).
C1_FetchOnlyAfterCooldown ==
    /\ [](pc = "fetch" => now >= limit_until)
    /\ [][(pc = "check" /\ now < limit_until) =>
            \/ pc' = "menu"
            \/ /\ pc' = "check"
               /\ now' = now + Min(limit_until - now, CHECK_INTERVAL)
               /\ UNCHANGED <<storeVars, cycleVars, notifyVars>>]_vars

\* C1 witness: a listings request in flight after a cooldown has run out.
C1_Witness == pc = "fetch" /\ limit_until > 0 /\ now >= limit_until

\* C2 as stated: limit_until changes only by a 429 answer (upwards) or by a
\* successful API call (to 0).
C2_OnlyApiChangesLimit ==
    [][limit_until' # limit_until =>
         \/ RateLimitStep /\ limit_until' > limit_until
         \/ ApiSuccessStep /\ limit_until' = 0]_vars

\* C2 amended: limit_until changes only by a 429 answer (upwards), by a
\* successful API call (to 0) or by clean_all_data (to 0).
C2_LimitChanges ==
    [][limit_until' # limit_until =>
         \/ RateLimitStep /\ limit_until' > limit_until
         \/ ApiSuccessStep /\ limit_until' = 0
         \/ CleanStep /\ limit_until' = 0]_vars

\* C2 witness: a 429 answer has raised a cutoff that was already set.
C2_Witness == RateLimitRaised /\ limit_until > RATE_LIMIT_RETRY

\* C3: whenever RateLimitHitException is on its way to the caller, the
\* stored limit_until is already now + RATE_LIMIT_RETRY, a future time, and
\* it stays stored when the caller handles the exception or is interrupted.
C3_CutoffStoredBeforeRaise ==
    /\ [](RateLimitRaised => limit_until = now + RATE_LIMIT_RETRY /\ limit_until > now)
    /\ [][RateLimitRaised => limit_until' = limit_until /\ limit_until' > now']_vars

\* C3 witness: the 429 of a listings request reached monitor_mode's handler.
C3_Witness == pc = "rl_raised" /\ now > 0 /\ limit_until = now + RATE_LIMIT_RETRY

\* C4: a cycle whose listings request is answered 429 writes no item row and
\* sends nothing to the webhook; its handler sleeps CHECK_INTERVAL, after
\* which the clock is still before limit_until, and from the top of the loop
\* with now < limit_until no listings request is sent.
C4_RateLimitedCycleAborts ==
    /\ [][(pc = "fetch" /\ pc' = "rl_raised") =>
            db_items' = db_items /\ sends' = 0 /\ attempts' = 0]_vars
    /\ [][(pc = "rl_raised" /\ pc' = "check") =>
            /\ db_items' = db_items /\ sends' = 0 /\ attempts' = 0
            /\ now' = now + CHECK_INTERVAL
            /\ now' < limit_until']_vars
    /\ [][(pc = "check" /\ now < limit_until) => pc' # "fetch"]_vars

\* C4 witness: a rate-limited cycle of a loop with a webhook configured,
\* about to sleep the interval.
C4_Witness == pc = "rl_raised" /\ discord /\ ENABLED CatchRateLimited

\* C5: when a request to the price API has returned successfully (listings
\* in monitor_mode, metadata in actionAdd), the stored limit_until is 0.
C5_SuccessClearsCooldown ==
    pc \in {"evaluated", "abort_wait", "add_fetched"} => limit_until = 0

\* C5 witness: a metadata request in flight while a cooldown is stored and
\* still running, so the success answer finds limit_until # 0.
C5_Witness == pc = "add_fetch" /\ limit_until > now /\ ENABLED ActionAddFetched

\* C6: no request to the price API is in flight while now < limit_until.
C6_NoApiCallInCooldown == ApiCallInFlight => now >= limit_until

\* The for loop of the cycle has completed and its locals are in place.
CycleEvaluated == pc \in {"evaluated", "sending", "retry_wait", "cycle_wait"}

HasEvent(name, trigger) ==
    \E i \in 1..Len(alert_items) :
        alert_items[i].name = name /\ alert_items[i].trigger = trigger

\* Every snapshot item has the fetched prices as its last prices in the store.
PricesRecorded ==
    \A id \in DOMAIN items :
        /\ id \in DOMAIN db_items /\ id \in DOMAIN prices
        /\ db_items[id].last_buy_price = prices[id].buy.unit_price
        /\ db_items[id].last_sell_price = prices[id].sell.unit_price

\* C7: for every item of the cycle, alert_items holds the SELL-opportunity
\* event (trigger "buy") with the best buy price CB and the buy quantity iff
\* CB > buy_threshold, and the BUY-opportunity event (trigger "sell") with
\* the best sell price CS and the sell quantity iff CS < sell_threshold.
C7_EventsIffCrossed ==
    CycleEvaluated =>
        \A id \in DOMAIN items :
            LET props == items[id]
                buy == prices[id].buy
                sell == prices[id].sell
            IN /\ IF buy.unit_price > props.buy_threshold
                    THEN \E i \in 1..Len(alert_items) : alert_items[i] =
                            [name |-> props.name, price |-> buy.unit_price,
                             quantity |-> buy.quantity,
                             threshold |-> props.buy_threshold, trigger |-> "buy"]
                    ELSE ~HasEvent(props.name, "buy")
               /\ IF sell.unit_price < props.sell_threshold
                    THEN \E i \in 1..Len(alert_items) : alert_items[i] =
                            [name |-> props.name, price |-> sell.unit_price,
                             quantity |-> sell.quantity,
                             threshold |-> props.sell_threshold, trigger |-> "sell"]
                    ELSE ~HasEvent(props.name, "sell")

\* C7 witness: a cycle in which one item crosses both thresholds and another
\* item sits exactly on both of its thresholds and has no event.
C7_Witness ==
    /\ pc = "evaluated"
    /\ \E id \in DOMAIN items :
        /\ prices[id].buy.unit_price > items[id].buy_threshold
        /\ prices[id].sell.unit_price < items[id].sell_threshold
        /\ HasEvent(items[id].name, "buy") /\ HasEvent(items[id].name, "sell")
    /\ \E id \in DOMAIN items :
        /\ prices[id].buy.unit_price = items[id].buy_threshold
        /\ prices[id].sell.unit_price = items[id].sell_threshold
        /\ ~HasEvent(items[id].name, "buy") /\ ~HasEvent(items[id].name, "sell")

C9_NotifyNeverUndoesCycle ==
    /\ [](pc \in {"sending", "retry_wait"} => PricesRecorded)
    /\ [][(pc \in {"sending", "retry_wait"}) => db_items' = db_items]_vars
    /\ [][pc = "sending" => pc' \in {"retry_wait", "cycle_wait", "menu"}]_vars
    /\ [][pc = "retry_wait" => pc' \in {"sending", "cycle_wait", "menu"}]_vars
    /\ [][pc = "cycle_wait" =>
            (\/ pc' = "menu"
             \/ pc' = "check" /\ now' = now + CHECK_INTERVAL /\ db_items' = db_items)]_vars

\* C9 witness: a cycle at its interval sleep whose delivery was rate limited,
\* retried and then failed.
C9_Witness == pc = "cycle_wait" /\ attempts = 2 /\ accepted = 0 /\ PricesRecorded

TriggerTitle(trigger) == IF trigger = "buy" THEN "SELL Opportunity" ELSE "BUY Opportunity"

\* The message holds one embed per trigger type present in alert_items,
\* listing every alert of that type, and nothing else.
PayloadGrouped ==
    /\ Len(payload) <= 2
    /\ \A trigger \in {"buy", "sell"} :
        LET of_type == {i \in 1..Len(alert_items) : alert_items[i].trigger = trigger}
            embeds == {j \in 1..Len(payload) : payload[j].title = TriggerTitle(trigger)}
        IN /\ Cardinality(embeds) = IF of_type = {} THEN 0 ELSE 1
           /\ \A j \in embeds :
                /\ Len(payload[j].description) = Cardinality(of_type)
                /\ \A i \in of_type : \E k \in 1..Len(payload[j].description) :
                     payload[j].description[k] =
                        [name |-> alert_items[i].name, price |-> alert_items[i].price,
                         quantity |-> alert_items[i].quantity]
    /\ \A j \in 1..Len(payload) : payload[j].title \in {TriggerTitle("buy"), TriggerTitle("sell")}

C11_RetryOncePerRateLimit ==
    /\ [](pc = "sending" => attempts = rate_limits + 1)
    /\ [](pc = "retry_wait" => attempts = rate_limits)
    /\ [](accepted <= 1)
    /\ [](returned # "None" =>
            /\ attempts = rate_limits + 1
            /\ (returned = "True") <=> (accepted = 1))
    /\ [][(pc = "sending" /\ pc' = "retry_wait") =>
            rate_limits' = rate_limits + 1 /\ attempts' = attempts /\ returned' = "None"]_vars
    /\ [][(pc = "retry_wait" /\ pc' = "sending") =>
            /\ now' = now + retry_after
            /\ attempts' = attempts + 1
            /\ alert_items' = alert_items /\ payload' = payload
            /\ rate_limits' = rate_limits]_vars
    /\ [][(pc = "sending" /\ pc' = "cycle_wait") =>
            attempts' = attempts /\ rate_limits' = rate_limits /\ returned' # "None"]_vars

\* C11 amended: a 429 answer of the webhook makes send_alert sleep the delay
\* read from the answer and post the same alerts once more, as long as the
\* nested calls fit below the recursion limit; a request in flight is always
\* the (rate_limits + 1)-th attempt; acceptance or any other error ends the
\* call without a further attempt, and then attempts = rate_limits + 1; the
\* call that cannot nest any deeper returns False with attempts = rate_limits;
\* the call returns True exactly when the channel accepted, and the channel
\* accepts at most once.
C11_RetryOncePerRateLimitNested ==
    /\ [](pc = "sending" => attempts = rate_limits + 1)
    /\ [](pc = "retry_wait" => attempts = rate_limits)
    /\ [](accepted <= 1)
    /\ [](returned # "None" =>
            /\ \/ attempts = rate_limits + 1
               \/ attempts = rate_limits /\ attempts > MaxRetries /\ returned = "False"
            /\ (returned = "True") <=> (accepted = 1))
    /\ [][(pc = "sending" /\ pc' = "retry_wait") =>
            rate_limits' = rate_limits + 1 /\ attempts' = attempts /\ returned' = "None"]_vars
    /\ [][(pc = "retry_wait" /\ pc' = "sending") =>
            /\ attempts <= MaxRetries
            /\ now' = now + retry_after
            /\ attempts' = attempts + 1
            /\ alert_items' = alert_items /\ payload' = payload
            /\ rate_limits' = rate_limits]_vars
    /\ [][(pc = "retry_wait" /\ pc' = "cycle_wait") =>
            /\ attempts > MaxRetries
            /\ now' = now + retry_after
            /\ attempts' = attempts /\ rate_limits' = rate_limits /\ accepted' = accepted
            /\ returned' = "False"]_vars
    /\ [][(pc = "sending" /\ pc' = "cycle_wait") =>
            attempts' = attempts /\ rate_limits' = rate_limits /\ returned' # "None"]_vars

\* C11 witness: a delivery that was rate limited once, retried and accepted.
C11_Witness ==
    pc = "cycle_wait" /\ rate_limits = 1 /\ attempts = 2 /\ accepted = 1 /\ returned = "True"

\* C12: send_alert called with an empty list returns False and posts
\* nothing: no request is made and no message is built.
C12_EmptyAlertsNoDelivery ==
    (call.op = "send_alert" /\ alert_items = <<>>) =>
        /\ call.ret = "False" /\ returned = "False"
        /\ attempts = 0 /\ accepted = 0 /\ payload = <<>>

\* C12 witness: send_alert([]) has returned, on a store that holds an item.
C12_Witness ==
    call.op = "send_alert" /\ alert_items = <<>> /\ returned = "False" /\ db_items # Empty

\* Corollary of C12 in monitor_mode (Spec): a cycle without events reaches
\* its interval sleep without any webhook request.
NoEventsNoDelivery == (pc = "cycle_wait" /\ alert_items = <<>>) => (sends = 0 /\ attempts = 0)

\* monitor_mode is running (main_menu is not at its prompt or in actionAdd).
InLoop == pc \notin {"menu", "add_fetch", "add_fetched", "add_rl_raised"}

\* C13: a listings request that fails with anything but a 429 writes no item
\* row, appends no alert and no log line and sends nothing to the webhook;
\* the handler sleeps CHECK_INTERVAL and goes back to the top of the loop;
\* and the only step that ends monitor_mode is the KeyboardInterrupt.
C13_FetchFailureKeepsLooping ==
    /\ [][(pc = "fetch" /\ pc' = "err_wait") =>
            /\ db_items' = db_items
            /\ alert_items' = <<>> /\ logged' = <<>>
            /\ sends' = 0 /\ attempts' = 0]_vars
    /\ [][pc = "err_wait" =>
            \/ Interrupt
            \/ /\ pc' = "check"
               /\ now' = now + CHECK_INTERVAL
               /\ db_items' = db_items
               /\ sends' = 0 /\ attempts' = 0]_vars
    /\ [][(InLoop /\ pc' = "menu") => Interrupt]_vars

\* C13 witness: a failed listings request in a cycle after the first, about
\* to sleep the interval, with items in the store.
C13_Witness == pc = "err_wait" /\ now > 0 /\ db_items # Empty /\ ENABLED Sleep

\* C14: alert_items of one cycle never holds two alerts of the same item and
\* trigger type; and alerts are not held back across cycles: an item whose
\* price recorded by the last cycle was beyond a threshold and whose newly
\* fetched price still is gets its alert again.
C14_OneAlertPerCycleNoDedup ==
    /\ [](CycleEvaluated =>
            \A i, j \in 1..Len(alert_items) :
                (alert_items[i].name = alert_items[j].name
                 /\ alert_items[i].trigger = alert_items[j].trigger) => i = j)
    /\ [][(pc = "fetch" /\ pc' = "evaluated") =>
            \A id \in DOMAIN items :
                /\ (/\ db_items[id].last_buy_price > items[id].buy_threshold
                    /\ prices'[id].buy.unit_price > items[id].buy_threshold)
                   => \E i \in 1..Len(alert_items') :
                        /\ alert_items'[i].name = items[id].name
                        /\ alert_items'[i].trigger = "buy"
                /\ (/\ db_items[id].last_sell_price < items[id].sell_threshold
                    /\ prices'[id].sell.unit_price < items[id].sell_threshold)
                   => \E i \in 1..Len(alert_items') :
                        /\ alert_items'[i].name = items[id].name
                        /\ alert_items'[i].trigger = "sell"]_vars

\* C14 witness: a listings request is in flight for an item whose price
\* recorded by an earlier cycle is above its buy threshold, and the answer
\* can hold a price above it again.
C14_Witness ==
    /\ pc = "fetch" /\ now >= CHECK_INTERVAL
    /\ \E id \in DOMAIN items :
        /\ db_items[id].last_buy_price > items[id].buy_threshold
        /\ \E p \in OrderPrices : p > items[id].buy_threshold

\* C15: update_prices(id, b, s[, lowest_seen]) on an id of the table returns
\* True and leaves that row with last_buy_price = b and last_sell_price = s,
\* its name and thresholds as they were, its lowest_seen as it was when the
\* argument is left out (and equal to the argument otherwise), and every
\* other row as it was; on an id not in the table it returns False and the
\* table is unchanged.
C15_UpdatePricesEffect ==
    [][call'.op = "update_prices" =>
        LET c == call'
        IN IF c.id \in DOMAIN db_items
             THEN /\ c.ret = "True"
                  /\ DOMAIN db_items' = DOMAIN db_items
                  /\ db_items'[c.id].last_buy_price = c.buy
                  /\ db_items'[c.id].last_sell_price = c.sell
                  /\ db_items'[c.id].name = db_items[c.id].name
                  /\ db_items'[c.id].buy_threshold = db_items[c.id].buy_threshold
                  /\ db_items'[c.id].sell_threshold = db_items[c.id].sell_threshold
                  /\ db_items'[c.id].lowest_seen =
                        IF c.lowest_seen = None THEN db_items[c.id].lowest_seen ELSE c.lowest_seen
                  /\ \A k \in DOMAIN db_items \ {c.id} : db_items'[k] = db_items[k]
             ELSE /\ c.ret = "False"
                  /\ db_items' = db_items]_vars

\* C15 witness: update_prices without lowest_seen has returned True for a row
\* whose lowest_seen had been set, next to another row, with prices that
\* differ from the thresholds.
C15_Witness ==
    /\ call.op = "update_prices" /\ call.ret = "True" /\ call.lowest_seen = None
    /\ Cardinality(DOMAIN db_items) = 2
    /\ db_items[call.id].lowest_seen = 0
    /\ db_items[call.id].last_buy_price = 1 /\ db_items[call.id].buy_threshold = 0
    /\ db_items[call.id].last_sell_price = 0 /\ db_items[call.id].sell_threshold = 1

\* C16: itemThreshold on an id of the table with at least one threshold
\* given returns True, sets each threshold that is given, leaves the one that
\* is not, resets lowest_seen to 999999999 and leaves name, last prices and
\* all other rows as they were; with an unknown id or with neither threshold
\* given it returns False and the table is unchanged.
C16_ThresholdEffect ==
    [][call'.op = "itemThreshold" =>
        LET c == call'
        IN IF c.id \in DOMAIN db_items /\ (c.buy # None \/ c.sell # None)
             THEN /\ c.ret = "True"
                  /\ DOMAIN db_items' = DOMAIN db_items
                  /\ db_items'[c.id].buy_threshold =
                        IF c.buy # None THEN c.buy ELSE db_items[c.id].buy_threshold
                  /\ db_items'[c.id].sell_threshold =
                        IF c.sell # None THEN c.sell ELSE db_items[c.id].sell_threshold
                  /\ db_items'[c.id].lowest_seen = LOWEST_SEEN_DEFAULT
                  /\ db_items'[c.id].name = db_items[c.id].name
                  /\ db_items'[c.id].last_buy_price = db_items[c.id].last_buy_price
                  /\ db_items'[c.id].last_sell_price = db_items[c.id].last_sell_price
                  /\ \A k \in DOMAIN db_items \ {c.id} : db_items'[k] = db_items[k]
             ELSE /\ c.ret = "False"
                  /\ db_items' = db_items]_vars

\* C16 witness: itemThreshold with only the buy threshold has returned True
\* for a row with recorded prices and a different sell threshold, next to a
\* row whose lowest_seen is set.
C16_Witness ==
    /\ call.op = "itemThreshold" /\ call.ret = "True" /\ call.buy = 1 /\ call.sell = None
    /\ db_items[call.id].buy_threshold = 1 /\ db_items[call.id].sell_threshold = 0
    /\ db_items[call.id].last_buy_price = 1 /\ db_items[call.id].last_sell_price = 1
    /\ db_items[call.id].lowest_seen = LOWEST_SEEN_DEFAULT
    /\ \E k \in DOMAIN db_items : k # call.id /\ db_items[k].lowest_seen = 0

\* C17: itemAdd with an id that is in the table, or with a name that a row
\* of the table carries, raises ValueError and leaves the items table and
\* the state row as they were; with a new id and name it inserts the row
\* with the given name and thresholds and last prices 0, next to the rows
\* that were there.
C17_AddItemDuplicate ==
    [][call'.op = "itemAdd" =>
        LET c == call'
        IN IF \E k \in DOMAIN db_items : k = c.id \/ db_items[k].name = c.name
             THEN /\ c.ret = "ValueError"
                  /\ db_items' = db_items
                  /\ limit_until' = limit_until /\ last_run' = last_run
                  /\ state_rows' = state_rows
             ELSE /\ c.ret = "None"
                  /\ DOMAIN db_items' = DOMAIN db_items \cup {c.id}
                  /\ db_items'[c.id].name = c.name
                  /\ db_items'[c.id].buy_threshold = c.buy
                  /\ db_items'[c.id].sell_threshold = c.sell
                  /\ db_items'[c.id].last_buy_price = 0
                  /\ db_items'[c.id].last_sell_price = 0
                  /\ \A k \in DOMAIN db_items : db_items'[k] = db_items[k]]_vars

\* C17 witness: itemAdd has raised for a new id whose name a row of another
\* id carries, while a cooldown is stored.
C17_Witness ==
    /\ call.op = "itemAdd" /\ call.ret = "ValueError"
    /\ call.id \notin DOMAIN db_items
    /\ \E k \in DOMAIN db_items : db_items[k].name = call.name
    /\ limit_until > 0

\* C18: itemDel(id) returns True exactly when the table held a row with that
\* id; afterwards the id is not in the table and every other row is as it
\* was; and an itemDel that directly follows an itemDel of the same id
\* returns False and changes nothing.
C18_DeleteTwice ==
    [][call'.op = "itemDel" =>
        LET c == call'
        IN /\ c.ret = IF c.id \in DOMAIN db_items THEN "True" ELSE "False"
           /\ DOMAIN db_items' = DOMAIN db_items \ {c.id}
           /\ \A k \in DOMAIN db_items' : db_items'[k] = db_items[k]
           /\ (call.op = "itemDel" /\ call.id = c.id) =>
                (c.ret = "False" /\ db_items' = db_items)]_vars

\* C18 witness: an itemDel has returned True and left another row in place,
\* so that the same call can follow at once.
C18_Witness ==
    /\ call.op = "itemDel" /\ call.ret = "True"
    /\ call.id \notin DOMAIN db_items /\ db_items # Empty
    /\ ENABLED CallItemDel

\* C19: after any sequence of itemAdd, itemDel, itemThreshold, update_prices
\* and clean_all_data the rows of the items table carry pairwise different
\* names.  (Rows are keyed by id, the PRIMARY KEY of the table, so two rows
\* never share an id.)
C19_UniqueIdsAndNames ==
    /\ \A a, b \in DOMAIN db_items : db_items[a].name = db_items[b].name => a = b
    /\ Cardinality({db_items[k].name : k \in DOMAIN db_items}) = Cardinality(DOMAIN db_items)

\* C19 witness: a second row has been inserted next to a row that has
\* recorded prices and a lowest_seen, the two under different names.
C19_Witness ==
    /\ call.op = "itemAdd" /\ call.ret = "None"
    /\ Cardinality(DOMAIN db_items) = 2
    /\ \E k \in DOMAIN db_items :
        k # call.id /\ db_items[k].last_buy_price = 1 /\ db_items[k].lowest_seen = 0

\* C20: table state never holds more than one row; the row count changes
\* only from 0 to 1, by the first DB() on a new file; it is 0 only as long as
\* no operation has opened the store; and from then on every step (cooldown
\* writes, clean_all_data, every further DB()) leaves exactly one row.
C20_SingleStateRow ==
    /\ [](state_rows <= 1)
    /\ [](state_rows = 0 =>
            pc \in {"menu", "check"} /\ now = 0 /\ limit_until = 0 /\ db_items = Empty)
    /\ [][state_rows' # state_rows => (state_rows = 0 /\ state_rows' = 1)]_vars
    /\ [][state_rows = 1 => state_rows' = 1]_vars

\* C20 witness: the loop is back at its top in a later cycle with a cutoff
\* stored and items in the table: the store has been opened many times and
\* the cooldown has been written.
C20_Witness ==
    /\ state_rows = 1 /\ pc = "check" /\ now >= CHECK_INTERVAL
    /\ limit_until > now /\ db_items # Empty

\* C21: every step that is a clean_all_data call ends with table items empty
\* and last_run = 0 and limit_until = 0, and leaves state.custom_dir and the
\* keys of the configuration file (API token, webhook URL, data directory)
\* as they were before the call.
C21_ResetAllFrame ==
    [][(call'.op = "clean_all_data") =>
         /\ db_items' = Empty
         /\ last_run' = 0
         /\ limit_until' = 0
         /\ custom_dir' = custom_dir
         /\ config' = config]_vars

\* C21 witness: clean_all_data has just run on a store whose state row holds
\* a custom_dir, with all three keys in the configuration file.
C21_Witness ==
    /\ call.op = "clean_all_data"
    /\ custom_dir = 1
    /\ config = ConfigKeys
    /\ db_items = Empty /\ last_run = 0 /\ limit_until = 0

\* The upgrade steps with a target above v, in increasing order.
StepsAbove(v) == [i \in 1..(SCHEMA_VERSION - v) |-> v + i]

\* C22: DB() on a store with marker v in 0..4 runs exactly the upgrade
\* steps v+1..4 in increasing order and leaves the marker at 4, never below
\* what it was; no column the store had is lost or added twice, and a store
\* that has every column already keeps its columns and its rows; opening a
\* store whose marker is 4 runs no step and changes neither the columns nor
\* any row of items or state.
C22_MigrateSteps ==
    [][(call'.op = "DB") =>
         /\ applied' = StepsAbove(user_version)
         /\ user_version' = SCHEMA_VERSION
         /\ user_version' >= user_version
         /\ (columns \ {"threshold"}) \subseteq columns'
         /\ columns' = AllColumns
         /\ (AllColumns \subseteq columns) => (columns' = columns /\ db_items' = db_items)
         /\ (user_version = SCHEMA_VERSION) =>
              /\ applied' = <<>>
              /\ UNCHANGED <<columns, storeVars, state_rows, custom_dir>>]_vars

\* C22 witness: a store with marker 2 and an item row has been opened; steps
\* 3 and 4 ran and the row's sell threshold is the copy of its threshold.
C22_Witness ==
    /\ call.op = "DB"
    /\ applied = <<3, 4>>
    /\ user_version = SCHEMA_VERSION
    /\ columns = AllColumns
    /\ 1 \in DOMAIN db_items
    /\ db_items[1].sell_threshold = 1

\* price_str.strip().lower()
Canon(x) == [i \in 1..Len(strip(x)) |-> lower(strip(x)[i])]

\* The number written in front of the unit letter in s, 0 without the letter.
GroupValue(s, unit) ==
    IF \A i \in 1..Len(s) : s[i] # unit THEN 0
    ELSE LET i == CHOOSE k \in 1..Len(s) : s[k] = unit
             j == CHOOSE k \in 1..i :
                    /\ \A m \in k..(i - 1) : IsDigit(s[m])
                    /\ (k = 1 \/ ~IsDigit(s[k - 1]))
         IN int(SubSeq(s, j, i - 1))

\* 10000 * gold + 100 * silver + copper of a text
Amount(s) == 10000 * GroupValue(s, "g") + 100 * GroupValue(s, "s") + GroupValue(s, "c")

TwoDigits(n) == <<Digits[(n \div 10) + 1], Digits[(n % 10) + 1]>>

\* The normalized form of a text: the same amount written with silver and
\* copper in 0..99, two digits each.
Normalized(x) ==
    LET a == Amount(Canon(x))
    IN str(a \div 10000) \o <<"g">> \o TwoDigits((a \div 100) % 100) \o <<"s">>
       \o TwoDigits(a % 100) \o <<"c">>

\* C23: parse_price_input applied to format_price(n) gives n back, for every
\* amount n >= 0; for every text x the pattern accepts, parse_price_input(x)
\* is 10000 * gold + 100 * silver + copper of x, and format_price of that
\* amount is the normalized form of x; parse_price_input("1g23s45c") is 12345
\* and format_price(12345) is "1g23s45c".
C23_PriceRoundTrip ==
    /\ [][(call.op = "format_price" /\ call'.op = "parse_price_input") =>
            call'.copper = call.arg]_vars
    /\ []((call.op = "parse_price_input" /\ call.copper # ValueError) =>
            call.copper = Amount(Canon(call.arg)))
    /\ [][(call.op = "parse_price_input" /\ call.copper # ValueError
             /\ call'.op = "format_price") =>
            call'.text = Normalized(call.arg)]_vars
    /\ []((call.op = "parse_price_input"
             /\ call.arg = <<"1", "g", "2", "3", "s", "4", "5", "c">>) =>
            call.copper = 12345)
    /\ []((call.op = "format_price" /\ call.arg = 12345) =>
            call.text = <<"1", "g", "2", "3", "s", "4", "5", "c">>)

\* C23 witness: "150s" has been parsed and the amount formatted: 15000 copper,
\* more than any amount formatted first, reads "1g50s00c".
C23_Witness ==
    /\ call.op = "format_price"
    /\ call.arg = 15000
    /\ call.text = <<"1", "g", "5", "0", "s", "0", "0", "c">>

\* The step is an actionAdd or actionThreshold that ended in a ValueError:
\* a price text was rejected, or the id or name is in the table already.
ValidationFailed ==
    /\ call'.op \in {"actionAdd", "actionThreshold"}
    /\ call'.ret = "ValueError"

\* C24 as stated: an actionAdd or actionThreshold that ends in a ValueError
\* leaves table items, last_run and limit_until as they were before it.
C24_FailedOpKeepsState ==
    [][ValidationFailed => UNCHANGED <<db_items, last_run, limit_until>>]_vars

\* C24 amended: an actionAdd or actionThreshold that ends in a ValueError
\* leaves table items and last_run as they were; actionThreshold leaves
\* limit_until as well, while actionAdd leaves it at 0, the value the
\* answered item request stored before the thresholds were parsed.
C24_FailedOpKeepsItems ==
    [][ValidationFailed =>
         /\ UNCHANGED <<db_items, last_run>>
         /\ (call'.op = "actionThreshold") => (limit_until' = limit_until)
         /\ (call'.op = "actionAdd") => (limit_until' = FetchSuccessLimit)]_vars

\* C24 witness: an actionAdd has ended in a ValueError on a table that holds
\* both ids, after its item request was answered.
C24_Witness ==
    /\ call.op = "actionAdd"
    /\ call.ret = "ValueError"
    /\ DOMAIN db_items = ItemIds
    /\ limit_until = FetchSuccessLimit

\* The loop is at its top with the stored cutoff still ahead.
Cooling == pc = "check" /\ now < limit_until

\* C25 as stated: in the cooldown the loop sleeps
\* min(limit_until - now, CHECK_INTERVAL) and comes back to the check; a
\* listings request is in flight only at a time >= limit_until; and a loop
\* in the cooldown (one that ends before the clock stops) goes on to issue a
\* listings request, unless Ctrl+C ends the loop first.
C25_CooldownEndsInFetch ==
    /\ [][Cooling =>
            \/ pc' = "menu"
            \/ pc' = "check" /\ now' = now + Min(limit_until - now, CHECK_INTERVAL)]_vars
    /\ [](pc = "fetch" => now >= limit_until)
    /\ (Cooling /\ limit_until <= MaxTime) ~> (pc = "fetch" \/ pc = "menu")

\* C25 amended: as above, but the listings request follows only if table
\* items is not empty when the cooldown is over; with an empty table the loop
\* leaves the cooldown and makes no request.
C25_CooldownEndsInFetchOfItems ==
    /\ [][Cooling =>
            \/ pc' = "menu"
            \/ pc' = "check" /\ now' = now + Min(limit_until - now, CHECK_INTERVAL)]_vars
    /\ [](pc = "fetch" => now >= limit_until)
    /\ (Cooling /\ limit_until <= MaxTime /\ db_items # Empty) ~> (pc = "fetch" \/ pc = "menu")
    /\ (Cooling /\ limit_until <= MaxTime) ~> (~Cooling \/ pc = "menu")
    /\ [](pc = "fetch" => db_items # Empty)

\* C25 witness: the loop started at time 0 with the cutoff 100 s ahead, slept
\* those 100 s and has its listings request in flight at the cutoff.
C25_Witness ==
    /\ pc = "fetch"
    /\ limit_until = 100
    /\ now = limit_until

\* send_alert is running: a request is in flight or the retry delay is slept.
InSendAlert == pc \in {"sending", "retry_wait"}

\* C26 as stated: an answer other than 429 ends the send_alert call; every
\* 429 is followed by a retry, however many there were; and the call returns
\* only on an answer other than 429.
C26_RetriesWithoutBound ==
    /\ [][(pc = "sending" /\ pc' = "cycle_wait") => returned' # "None"]_vars
    /\ [][pc = "retry_wait" => pc' \in {"sending", "menu"}]_vars
    /\ [][(InSendAlert /\ returned' # "None") =>
            (pc = "sending" /\ rate_limits' = rate_limits)]_vars

\* C26 amended: an answer other than 429 ends the send_alert call; a 429 is
\* followed by a retry as long as the nested calls fit below the recursion
\* limit, so the channel answers 429 at most MaxRetries + 1 times in one
\* call; otherwise the call returns False without a further request; a call
\* whose requests are answered always returns (or Ctrl+C ends the loop), and
\* the loop then sleeps the interval and reaches its next cycle.
C26_RetriesBoundedByNesting ==
    /\ [][(pc = "sending" /\ pc' = "cycle_wait") => returned' # "None"]_vars
    /\ [][(pc = "retry_wait" /\ attempts <= MaxRetries) => pc' \in {"sending", "menu"}]_vars
    /\ [][(pc = "retry_wait" /\ attempts > MaxRetries) =>
            \/ pc' = "menu"
            \/ pc' = "cycle_wait" /\ returned' = "False" /\ attempts' = attempts]_vars
    /\ [](rate_limits <= MaxRetries + 1)
    /\ InSendAlert ~> (returned # "None" \/ pc = "menu")
    /\ (returned # "None" /\ now + CHECK_INTERVAL <= MaxTime) ~> (pc = "check" \/ pc = "menu")

\* C26 witness: the channel answered 429 to every request of a call until
\* the nested calls were used up; the call has returned False and the cycle
\* is at its interval sleep.
C26_Witness ==
    /\ pc = "cycle_wait"
    /\ returned = "False"
    /\ rate_limits = MaxRetries + 1
    /\ attempts = rate_limits
    /\ accepted = 0

\* C27: at the top of the loop with no cooldown and an empty table items,
\* the only step of the loop is the sleep of EMPTY_SLEEP seconds back to the
\* check: no request is sent, the store is not written, there is no event and
\* no log line, and send_alert is not called (Ctrl+C may end the loop).
C27_EmptyStoreCycle ==
    /\ [][(pc = "check" /\ ~CooldownActive(now, limit_until) /\ db_items = Empty) =>
            \/ pc' = "menu"
            \/ /\ pc' = "check"
               /\ now' = now + EMPTY_SLEEP
               /\ UNCHANGED <<storeVars, cycleVars, notifyVars>>]_vars
    /\ []((pc = "check" /\ db_items = Empty) =>
            /\ items = Empty /\ prices = Empty
            /\ alert_items = <<>> /\ logged = <<>>
            /\ sends = 0 /\ attempts = 0)
    /\ [](pc = "fetch" => db_items # Empty)

\* C27 witness: the loop is back at the check after the 10 s sleep of an
\* empty table, with nothing fetched, logged or sent.
C27_Witness ==
    /\ pc = "check"
    /\ db_items = Empty
    /\ now = MaxTime - MaxIdleTime + EMPTY_SLEEP
    /\ prices = Empty /\ logged = <<>> /\ sends = 0

\* The first id of the snapshot, in row order, that `fetched` has no entry
\* for (0: every id has one).
FirstMissing(snapshot, fetched) ==
    IF DOMAIN snapshot \subseteq DOMAIN fetched THEN 0
    ELSE CHOOSE m \in DOMAIN snapshot \ DOMAIN fetched :
            \A k \in DOMAIN snapshot \ DOMAIN fetched : m <= k

\* The log holds a line for the item and trigger.
Logged(lines, name, trigger) ==
    \E i \in 1..Len(lines) : lines[i].name = name /\ lines[i].trigger = trigger

\* C28: a cycle ends in the outer exception handler after an answered
\* listings request exactly when the answer lacks a tracked id; then every
\* item before the first missing id has the fetched prices in its row and
\* its alert lines in the log, the missing item and every later one keep
\* their rows, send_alert is not called, and the handler sleeps
\* CHECK_INTERVAL and goes back to the top of the loop.
C28_MissingListingAborts ==
    /\ [][(pc = "fetch" /\ pc' \in {"abort_wait", "evaluated"}) =>
            ((pc' = "abort_wait") <=> (FirstMissing(items, prices') # 0))]_vars
    /\ [][(pc = "fetch" /\ pc' = "abort_wait") =>
            LET m == FirstMissing(items, prices')
            IN /\ \A id \in DOMAIN items :
                    IF id < m
                      THEN /\ db_items'[id].last_buy_price = prices'[id].buy.unit_price
                           /\ db_items'[id].last_sell_price = prices'[id].sell.unit_price
                           /\ BuyCrossed(prices'[id].buy.unit_price, items[id].buy_threshold)
                                <=> Logged(logged', items[id].name, "buy")
                           /\ SellCrossed(prices'[id].sell.unit_price, items[id].sell_threshold)
                                <=> Logged(logged', items[id].name, "sell")
                      ELSE /\ db_items'[id] = db_items[id]
                           /\ ~Logged(logged', items[id].name, "buy")
                           /\ ~Logged(logged', items[id].name, "sell")
               /\ sends' = 0 /\ attempts' = 0]_vars
    /\ [](pc = "abort_wait" => sends = 0 /\ attempts = 0 /\ returned = "None")
    /\ [][pc = "abort_wait" =>
            \/ pc' = "menu"
            \/ pc' = "check" /\ now' = now + CHECK_INTERVAL /\ db_items' = db_items]_vars

\* C28 witness: the answer had an entry for item 1 and none for item 2; the
\* cycle is in the handler's sleep with the price of item 1 recorded and its
\* alert line logged, and item 2 without a recorded price.
C28_Witness ==
    /\ pc = "abort_wait"
    /\ DOMAIN items = {1, 2}
    /\ DOMAIN prices = {1}
    /\ db_items[1].last_buy_price = 1
    /\ db_items[2].last_buy_price = 0
    /\ logged # <<>>

\* C29: every row of table items has lowest_seen = 999999999 (the column
\* default): main_menu and monitor_mode never pass a lowest_seen.
C29_LowestSeenNeverWritten ==
    \A id \in DOMAIN db_items : db_items[id].lowest_seen = LOWEST_SEEN_DEFAULT

\* C29 witness: a cycle has recorded a sell price for an item, far below the
\* default, and the item's lowest_seen is still the default.
C29_Witness ==
    /\ pc = "cycle_wait"
    /\ \E id \in DOMAIN db_items :
        /\ db_items[id].last_sell_price > 0
        /\ db_items[id].last_sell_price < db_items[id].lowest_seen
        /\ db_items[id].lowest_seen = LOWEST_SEEN_DEFAULT

====
